---- MODULE Spec2Model ----
(***************************************************************************)
(* Reliability core of all-mighty-push: the circuit breaker, the retry     *)
(* decision and retry policy, the send pipeline of PushCore, the SQLite    *)
(* storage adapter's subscription table and retry queue, the retry worker, *)
(* and the lifecycle of PushCore (batchSend, in-flight tracking, shutdown).*)
(*                                                                         *)
(* Time is the integer clock `now` (milliseconds, Date.now()).             *)
(***************************************************************************)
EXTENDS Integers, Sequences, FiniteSets, TLC

VARIABLES
    now,          \* Date.now()
    cbConfig,     \* CircuitBreaker.config
    cb,           \* CircuitBreaker fields: state, failureCount, successCount, lastFailureTime
    cbInflight,   \* number of execute(fn) calls whose fn is still pending
    consecFails,  \* history: failures completed since the last success / closing / reset
    hoSuccesses,  \* history: successes completed since the breaker last became half-open
    retryPolicy,  \* PushCore.config.retryPolicy
    workerPolicy, \* RetryWorker.retryPolicy
    subscriptions,\* SQLite table subscriptions: id -> row, NoRow when there is none
    retry_queue,  \* SQLite table retry_queue: the set of its rows
    nextCall,     \* sendNotification calls made so far, plus one (also the randomUUID source)
    sends,        \* sendNotification calls waiting for provider.send
    wBatch,       \* RetryWorker: entries dequeued in this cycle and not yet started
    wProcessing,  \* RetryWorker: processRetry calls waiting for provider.send
    config,       \* PushCore.config, as far as validateConfiguration and the pipeline read it
    isShuttingDown,      \* PushCore.isShuttingDown
    inFlightOperations,  \* PushCore.inFlightOperations: the ids of the tracked operations
    batchCalls,   \* batchSend calls made so far
    batches,      \* batchSend operations waiting for the sendNotification calls of a chunk
    shutdowns,    \* shutdown calls waiting in Promise.race
    closeCalls,   \* storageAdapter.close() calls made by shutdown
    timedOut,     \* history: a shutdown timer fired while an operation it waits for was pending
    failedResults,\* history: sendNotification calls in a row whose provider result was a failure
    args,         \* the arguments of the one call made when a function is checked by itself
    rlConfig,     \* TokenBucketRateLimiter: capacity and refillRate (tokens per second)
    tokens,       \* TokenBucketRateLimiter.tokens, in thousandths of a token
    sinceRefill,  \* Date.now() - TokenBucketRateLimiter.lastRefill (ms)
    waiters,      \* acquire(n) calls inside `await sleep(100)`
    running,      \* RetryWorker.running
    loops,        \* the start() calls of one RetryWorker: where each one's polling loop is
    processing,   \* RetryWorker.processing: the ids of the entries being processed
    stopsWaiting, \* stop() calls inside `await sleep(100)`
    lastStop,     \* history: the last stop() that cleared the running flag, since the last
                  \* start(): "none", "waiting" or "returned"
    workerOptions,\* RetryWorker.options
    instances,    \* RetryWorker instances that poll one storage: each one's batch and the
                  \* processRetry calls of it that wait for provider.send
    invocations,  \* history: the provider.send calls made for each logical notification
    ev            \* history: the operation completed by the last step (NoEvent if none)

cbVars == <<cbConfig, cb, cbInflight, consecFails, hoSuccesses>>
coreVars == <<retryPolicy, workerPolicy, subscriptions, retry_queue, nextCall, sends,
              wBatch, wProcessing>>
pcVars == <<config, isShuttingDown, inFlightOperations, batchCalls, batches, shutdowns,
           closeCalls, timedOut, failedResults>>
rlVars == <<rlConfig, tokens, sinceRefill, waiters>>
wkVars == <<running, loops, processing, stopsWaiting, lastStop, workerOptions, instances>>
auxVars == <<args, rlVars, wkVars, invocations>>
vars == <<now, cbVars, coreVars, pcVars, auxVars, ev>>

(***************************************************************************)
(* Bounds of the model.                                                    *)
(***************************************************************************)
MaxTime == 3             \* the clock stops advancing here
MaxThreshold == 3        \* failureThreshold is drawn from 1..MaxThreshold
MaxHalfOpen == 2         \* halfOpenMaxAttempts is drawn from 1..MaxHalfOpen
MaxResetTimeout == 2     \* resetTimeout is drawn from 1..MaxResetTimeout
MaxInflight == 2         \* execute(fn) calls pending at the same time

MaxSends == 2            \* sendNotification calls in one behaviour
MaxRetriesBound == 1     \* maxRetries is drawn from 0..MaxRetriesBound
BaseDelay == 2           \* retryPolicy.baseDelay (ms)
BackoffFactor == 2       \* retryPolicy.backoffFactor
MaxDelay == 3            \* retryPolicy.maxDelay (ms), at least BaseDelay
BatchSize == 2           \* worker options.batchSize
Concurrency == 2         \* worker options.concurrency
MsPerSec == 1000         \* calculateNextRetry: retryAfter * 1000

MaxOps == 1              \* sendNotification calls made by callers of one PushCore
MaxBatches == 1          \* batchSend calls made by callers of one PushCore
MaxBatch == 3            \* subscriptions in the input of one batchSend
MaxLongBatch == 5        \* subscriptions in the input of a batchSend longer than batchSize

MaxCapacity == 2         \* the bucket's capacity is drawn from 1..MaxCapacity
MaxWaiters == 2          \* acquire calls sleeping at the same time
MaxLimited == 3          \* sendNotification calls through the rate limiter in one behaviour
SleepMs == 100           \* acquire: await this.sleep(100)

MaxLoops == 2            \* start() calls on one worker that start a loop
MaxStops == 2            \* stop() calls waiting at the same time
MaxWorkers == 2          \* RetryWorker instances over one storage
MaxEntries == 4          \* entries in the queue of a worker that is never stopped
MaxDue == 1              \* their nextRetryAt is drawn from 0..MaxDue

MaxAttempt == 3          \* attempt and maxRetries of a checked call are drawn from 0..MaxAttempt
MaxRetryAfter == 2       \* retryAfter (s) of a checked call is drawn from 0..MaxRetryAfter

NoTime == -1             \* lastFailureTime / lastUsedAt undefined

NoEvent == [op |-> "none"]

NoArgs == [fn |-> "none"]

\* No rate limiter is constructed.
LimiterIdle ==
    /\ rlConfig = [capacity |-> 0, refillRate |-> 0]
    /\ tokens = 0
    /\ sinceRefill = 0
    /\ waiters = {}

\* A loop slot: pc is "none" before start() is called, then "poll" (at the loop
\* test), "chunks" (inside processRetriesWithConcurrency), "sleep", and "ended"
\* once start() has returned; batch holds the dequeued entries not yet started;
\* stopped is history: stop() ended this loop.
NoLoop == [pc |-> "none", batch |-> <<>>, stopped |-> FALSE]

\* Worker instances that hold no batch and process nothing.
NoInstances == [w \in 1..MaxWorkers |-> [batch |-> <<>>, sending |-> {}]]

\* No provider.send call was made yet.
NoInvocations == [k \in 1..MaxSends |-> 0]

\* A RetryWorker on which start() was never called.
WorkerIdle ==
    /\ running = FALSE
    /\ loops = [l \in 1..MaxLoops |-> NoLoop]
    /\ processing = {}
    /\ stopsWaiting = 0
    /\ lastStop = "none"
    /\ instances = NoInstances
    /\ invocations = NoInvocations
    /\ workerOptions = [batchSize |-> BatchSize, concurrency |-> Concurrency]

\* No function is checked by itself, there is no rate limiter and the worker
\* was not started through start().
AuxIdle == args = NoArgs /\ LimiterIdle /\ WorkerIdle

(***************************************************************************)
(* Circuit breaker (CircuitBreaker.ts).                                    *)
(***************************************************************************)
CircuitBreakerInit ==
    [state |-> "closed", failureCount |-> 0, successCount |-> 0, lastFailureTime |-> NoTime]

shouldAttemptReset_always(b, cfg, t) ==
    b.lastFailureTime # NoTime

shouldAttemptReset_strict(b, cfg, t) ==
    IF b.lastFailureTime = NoTime THEN FALSE
    ELSE t - b.lastFailureTime > cfg.resetTimeout

shouldAttemptReset(b, cfg, t) ==
    IF b.lastFailureTime = NoTime THEN FALSE
    ELSE t - b.lastFailureTime >= cfg.resetTimeout

\* The part of execute() that runs before fn: the breaker after the check, and
\* whether fn is invoked (FALSE: CircuitBreakerOpenError is thrown).
executeGate_clearsFailures(b, cfg, t) ==
    IF b.state = "open"
    THEN IF shouldAttemptReset(b, cfg, t)
         THEN [cb |-> [b EXCEPT !.state = "half-open", !.successCount = 0, !.failureCount = 0],
               invoked |-> TRUE]
         ELSE [cb |-> b, invoked |-> FALSE]
    ELSE [cb |-> b, invoked |-> TRUE]

executeGate(b, cfg, t) ==
    IF b.state = "open"
    THEN IF shouldAttemptReset(b, cfg, t)
         THEN [cb |-> [b EXCEPT !.state = "half-open", !.successCount = 0], invoked |-> TRUE]
         ELSE [cb |-> b, invoked |-> FALSE]
    ELSE [cb |-> b, invoked |-> TRUE]

onSuccess_keepsFailures(b, cfg) ==
    IF b.state = "half-open"
    THEN LET n == b.successCount + 1 IN
         IF n >= cfg.halfOpenMaxAttempts
         THEN [state |-> "closed", failureCount |-> 0, successCount |-> 0,
               lastFailureTime |-> NoTime]
         ELSE [b EXCEPT !.successCount = n]
    ELSE b

onSuccess_oneMore(b, cfg) ==
    IF b.state = "half-open"
    THEN LET n == b.successCount + 1 IN
         IF n > cfg.halfOpenMaxAttempts
         THEN [state |-> "closed", failureCount |-> 0, successCount |-> 0,
               lastFailureTime |-> NoTime]
         ELSE [b EXCEPT !.successCount = n]
    ELSE IF b.state = "closed"
    THEN [b EXCEPT !.failureCount = 0]
    ELSE b

onSuccess(b, cfg) ==
    IF b.state = "half-open"
    THEN LET n == b.successCount + 1 IN
         IF n >= cfg.halfOpenMaxAttempts
         THEN [state |-> "closed", failureCount |-> 0, successCount |-> 0,
               lastFailureTime |-> NoTime]
         ELSE [b EXCEPT !.successCount = n]
    ELSE IF b.state = "closed"
    THEN [b EXCEPT !.failureCount = 0]
    ELSE b

onFailure(b, cfg, t) ==
    LET n == b.failureCount + 1 IN
    IF n >= cfg.failureThreshold
    THEN [state |-> "open", failureCount |-> n, successCount |-> 0, lastFailureTime |-> t]
    ELSE [b EXCEPT !.failureCount = n, !.lastFailureTime = t]

reset == CircuitBreakerInit

(***************************************************************************)
(* Provider results (ProviderResult), subscriptions and payloads.          *)
(***************************************************************************)
SubIds == {"s1", "s2"}
Payloads == {"p1", "p2"}
NoRow == [status |-> "none"]
NoRetryAfter == -1       \* retryAfter undefined
NoStatus == 0            \* statusCode undefined
NoError == "none"        \* error undefined

ProviderResults ==
    { [success |-> TRUE,  statusCode |-> 201,      shouldRetry |-> FALSE, retryAfter |-> NoRetryAfter, error |-> NoError],
      [success |-> FALSE, statusCode |-> 500,      shouldRetry |-> TRUE,  retryAfter |-> NoRetryAfter, error |-> "Server error"],
      [success |-> FALSE, statusCode |-> 429,      shouldRetry |-> TRUE,  retryAfter |-> 1,            error |-> "Too many"],
      [success |-> FALSE, statusCode |-> 410,      shouldRetry |-> FALSE, retryAfter |-> NoRetryAfter, error |-> "Gone"] }

(***************************************************************************)
(* Retry decision and retry policy.                                        *)
(***************************************************************************)
shouldRetry_ignoresMax(result, attempt, maxRetries) ==
    IF ~result.shouldRetry THEN FALSE
    ELSE IF result.statusCode # NoStatus /\ result.statusCode >= 500 /\ result.statusCode < 600
    THEN TRUE
    ELSE IF result.statusCode = 429 THEN TRUE
    ELSE result.shouldRetry

shouldRetry_beyondMax(result, attempt, maxRetries) ==
    IF attempt > maxRetries THEN FALSE
    ELSE IF ~result.shouldRetry THEN FALSE
    ELSE IF result.statusCode # NoStatus /\ result.statusCode >= 500 /\ result.statusCode < 600
    THEN TRUE
    ELSE IF result.statusCode = 429 THEN TRUE
    ELSE result.shouldRetry

shouldRetry(result, attempt, maxRetries) ==
    IF attempt >= maxRetries THEN FALSE
    ELSE IF ~result.shouldRetry THEN FALSE
    ELSE IF result.statusCode # NoStatus /\ result.statusCode >= 500 /\ result.statusCode < 600
    THEN TRUE
    ELSE IF result.statusCode = 429 THEN TRUE
    ELSE result.shouldRetry

RECURSIVE Pow(_, _)
Pow(b, n) == IF n = 0 THEN 1 ELSE b * Pow(b, n - 1)

Min(a, b) == IF a <= b THEN a ELSE b

calculateNextRetry_uncapped(attempt, policy, retryAfter, t) ==
    IF retryAfter # NoRetryAfter /\ retryAfter > 0
    THEN {t + retryAfter * MsPerSec}
    ELSE LET d == policy.baseDelay * Pow(policy.backoffFactor, attempt) IN
         IF policy.jitter
         THEN {t + k : k \in ((3 * d) \div 4) .. ((5 * d + 3) \div 4 - 1)}
         ELSE {t + d}

\* The timestamps calculateNextRetry can return at time t.  With jitter the delay
\* is a real number in [0.75 d, 1.25 d) and Date truncates it to a millisecond.
calculateNextRetry(attempt, policy, retryAfter, t) ==
    IF retryAfter # NoRetryAfter /\ retryAfter > 0
    THEN {t + retryAfter * MsPerSec}
    ELSE LET d == Min(policy.baseDelay * Pow(policy.backoffFactor, attempt), policy.maxDelay) IN
         IF policy.jitter
         THEN {t + k : k \in ((3 * d) \div 4) .. ((5 * d + 3) \div 4 - 1)}
         ELSE {t + d}

(***************************************************************************)
(* SQLite storage adapter: each operation gives the tables after it and ok *)
(* = FALSE when it throws StorageError.                                    *)
(***************************************************************************)
getSubscriptionById(subs, id) == subs[id]

updateSubscription(subs, id, updates) ==
    IF subs[id] = NoRow
    THEN [ok |-> FALSE, subs |-> subs]
    ELSE [ok |-> TRUE,
          subs |-> [subs EXCEPT ![id] =
                       [f \in DOMAIN subs[id] |->
                           IF f \in DOMAIN updates THEN updates[f] ELSE subs[id][f]]]]

\* INSERT INTO retry_queue: id is the primary key, subscription_id a foreign key.
enqueueRetry(subs, queue, retry) ==
    IF \/ \E e \in queue : e.id = retry.id
       \/ subs[retry.subscriptionId] = NoRow
    THEN [ok |-> FALSE, queue |-> queue]
    ELSE [ok |-> TRUE, queue |-> queue \cup {retry}]

\* An acknowledgement that deletes nothing.
ackRetry_keeps(queue, retryId) == queue

ackRetry(queue, retryId) == {e \in queue : e.id # retryId}

\* DELETE FROM subscriptions, with ON DELETE CASCADE on retry_queue.
deleteSubscription(subs, queue, id) ==
    [subs |-> [subs EXCEPT ![id] = NoRow],
     queue |-> {e \in queue : e.subscriptionId # id}]

\* A dequeue without the WHERE clause.
dequeueRetry_anyTime(queue, limit, t) ==
    LET n == Min(limit, Cardinality(queue))
    IN  {q \in [1..n -> queue] :
            /\ \A i, j \in 1..n : i < j => (q[i] # q[j] /\ q[i].nextRetryAt <= q[j].nextRetryAt)
            /\ \A e \in queue : (\A i \in 1..n : q[i] # e) =>
                                   (\A i \in 1..n : q[i].nextRetryAt <= e.nextRetryAt)}

\* SELECT ... WHERE next_retry_at <= now ORDER BY next_retry_at ASC LIMIT limit:
\* the sequences it can return (rows with equal next_retry_at come in any order).
dequeueRetry(queue, limit, t) ==
    LET ready == {e \in queue : e.nextRetryAt <= t}
        n == Min(limit, Cardinality(ready))
    IN  {q \in [1..n -> ready] :
            /\ \A i, j \in 1..n : i < j => (q[i] # q[j] /\ q[i].nextRetryAt <= q[j].nextRetryAt)
            /\ \A e \in ready : (\A i \in 1..n : q[i] # e) =>
                                   (\A i \in 1..n : q[i].nextRetryAt <= e.nextRetryAt)}

(***************************************************************************)
(* PushCore configuration and lifecycle state.                             *)
(***************************************************************************)
\* PushCore.config: configured is FALSE before the first configure(); the other
\* fields say which options are present.
Unconfigured ==
    [configured |-> FALSE, vapidKeys |-> FALSE, publicKey |-> FALSE, privateKey |-> FALSE,
     storageAdapter |-> FALSE, rateLimiter |-> FALSE, lifecycleHooks |-> FALSE]

FullConfig ==
    [configured |-> TRUE, vapidKeys |-> TRUE, publicKey |-> TRUE, privateKey |-> TRUE,
     storageAdapter |-> TRUE, rateLimiter |-> TRUE, lifecycleHooks |-> TRUE]

Configs ==
    { Unconfigured, FullConfig,
      [FullConfig EXCEPT !.vapidKeys = FALSE, !.publicKey = FALSE, !.privateKey = FALSE],
      [FullConfig EXCEPT !.publicKey = FALSE],
      [FullConfig EXCEPT !.privateKey = FALSE],
      [FullConfig EXCEPT !.storageAdapter = FALSE] }

\* A PushCore on which neither shutdown nor batchSend was called.
PushCoreInit(cfg) ==
    /\ config = cfg
    /\ isShuttingDown = FALSE
    /\ inFlightOperations = {}
    /\ batchCalls = 0
    /\ batches = {}
    /\ shutdowns = {}
    /\ closeCalls = 0
    /\ timedOut = FALSE
    /\ failedResults = 0

(***************************************************************************)
(* The breaker alone, driven by overlapping execute(fn) calls.             *)
(***************************************************************************)
InitCB ==
    /\ now = 0
    /\ cbConfig \in [failureThreshold : 1..MaxThreshold,
                     resetTimeout : 1..MaxResetTimeout,
                     halfOpenMaxAttempts : 1..MaxHalfOpen]
    /\ cb = CircuitBreakerInit
    /\ cbInflight = 0
    /\ consecFails = 0
    /\ hoSuccesses = 0
    /\ ev = NoEvent
    /\ retryPolicy = [maxRetries |-> 0, baseDelay |-> BaseDelay, backoffFactor |-> BackoffFactor,
                      maxDelay |-> MaxDelay, jitter |-> FALSE]
    /\ workerPolicy = retryPolicy
    /\ subscriptions = [s \in SubIds |-> NoRow]
    /\ retry_queue = {}
    /\ nextCall = 1
    /\ sends = {}
    /\ wBatch = <<>>
    /\ wProcessing = {}
    /\ PushCoreInit(Unconfigured)
    /\ AuxIdle

Tick ==
    /\ now < MaxTime
    /\ now' = now + 1
    /\ ev' = NoEvent
    /\ UNCHANGED <<auxVars, cbVars, coreVars, pcVars>>

\* execute(fn) up to the call of fn (or the throw of CircuitBreakerOpenError).
execute ==
    /\ cbInflight < MaxInflight
    /\ LET g == executeGate(cb, cbConfig, now) IN
       /\ cb' = g.cb
       /\ cbInflight' = IF g.invoked THEN cbInflight + 1 ELSE cbInflight
       /\ hoSuccesses' = IF cb.state = "open" /\ g.cb.state = "half-open" THEN 0 ELSE hoSuccesses
       /\ ev' = [op |-> "execute", before |-> cb, after |-> g.cb, at |-> now,
                 invoked |-> g.invoked]
    /\ UNCHANGED <<auxVars, now, cbConfig, consecFails, coreVars, pcVars>>

\* fn resolved: onSuccess().
executeResolved ==
    /\ cbInflight > 0
    /\ cbInflight' = cbInflight - 1
    /\ cb' = onSuccess(cb, cbConfig)
    /\ consecFails' = 0
    /\ hoSuccesses' = IF cb.state = "half-open" THEN hoSuccesses + 1 ELSE hoSuccesses
    /\ ev' = [op |-> "success", before |-> cb, after |-> cb', at |-> now,
              counted |-> hoSuccesses']
    /\ UNCHANGED <<auxVars, now, cbConfig, coreVars, pcVars>>

\* fn rejected: onFailure(), and the error is rethrown.
executeRejected ==
    /\ cbInflight > 0
    /\ cbInflight' = cbInflight - 1
    /\ cb' = onFailure(cb, cbConfig, now)
    /\ consecFails' = consecFails + 1
    /\ UNCHANGED hoSuccesses
    /\ ev' = [op |-> "failure", before |-> cb, after |-> cb', at |-> now,
              streak |-> consecFails']
    /\ UNCHANGED <<auxVars, now, cbConfig, coreVars, pcVars>>

resetBreaker ==
    /\ cb' = reset
    /\ consecFails' = 0
    /\ hoSuccesses' = 0
    /\ ev' = [op |-> "reset", before |-> cb, after |-> cb', at |-> now]
    /\ UNCHANGED <<auxVars, now, cbConfig, cbInflight, coreVars, pcVars>>

NextCB ==
    \/ Tick
    \/ execute
    \/ executeResolved
    \/ executeRejected
    \/ resetBreaker

SpecCB == InitCB /\ [][NextCB]_vars

(***************************************************************************)
(* PushCore.configure over the breaker it builds: configure(options) calls  *)
(* between the execute(fn) calls that sendNotification makes.              *)
(***************************************************************************)
NoSetting == 0           \* a field the options do not carry

\* The circuitBreaker config after the merge { ...DEFAULT, ...this.config, ...options }:
\* a field the options do not carry keeps the value it had.
mergeBreakerConfig(cfg, o) ==
    [f \in DOMAIN cfg |-> IF o.given /\ o[f] # NoSetting THEN o[f] ELSE cfg[f]]

\* A configured PushCore whose breaker is closed.
InitCfg ==
    /\ now = 0
    /\ cbConfig \in [failureThreshold : 1..MaxThreshold,
                     resetTimeout : 1..MaxResetTimeout,
                     halfOpenMaxAttempts : 1..MaxHalfOpen]
    /\ cb = CircuitBreakerInit
    /\ cbInflight = 0
    /\ consecFails = 0
    /\ hoSuccesses = 0
    /\ ev = NoEvent
    /\ retryPolicy = [maxRetries |-> 0, baseDelay |-> BaseDelay, backoffFactor |-> BackoffFactor,
                      maxDelay |-> MaxDelay, jitter |-> FALSE]
    /\ workerPolicy = retryPolicy
    /\ subscriptions = [s \in SubIds |-> NoRow]
    /\ retry_queue = {}
    /\ nextCall = 1
    /\ sends = {}
    /\ wBatch = <<>>
    /\ wProcessing = {}
    /\ PushCoreInit([FullConfig EXCEPT !.rateLimiter = FALSE, !.lifecycleHooks = FALSE])
    /\ AuxIdle

\* configure(options): options.circuitBreaker is absent (given = FALSE) or carries
\* some of the three settings; options may carry lifecycleHooks as well.  The
\* execute(fn) calls pending on the breaker that is replaced report to that
\* breaker, not to the new one.
configure ==
    \E o \in [given : BOOLEAN, failureThreshold : 0..MaxThreshold,
               resetTimeout : 0..MaxResetTimeout, halfOpenMaxAttempts : 0..MaxHalfOpen,
               lifecycleHooks : BOOLEAN] :
       /\ ~o.given => (o.failureThreshold = NoSetting /\ o.resetTimeout = NoSetting
                          /\ o.halfOpenMaxAttempts = NoSetting)
       /\ cbConfig' = mergeBreakerConfig(cbConfig, o)
       /\ config' = [config EXCEPT !.configured = TRUE,
                                   !.lifecycleHooks = @ \/ o.lifecycleHooks]
       /\ cb' = CircuitBreakerInit
       /\ cbInflight' = 0
       /\ consecFails' = 0
       /\ hoSuccesses' = 0
       /\ ev' = [op |-> "configure", options |-> o, before |-> cb, after |-> cb',
                 configBefore |-> cbConfig, at |-> now]
       /\ UNCHANGED <<auxVars, now, coreVars, isShuttingDown, inFlightOperations, batchCalls,
                      batches, shutdowns, closeCalls, timedOut, failedResults>>

NextCfg ==
    \/ NextCB
    \/ configure

SpecCfg == InitCfg /\ [][NextCfg]_vars

(***************************************************************************)
(* PushCore.sendNotification, RetryWorker and the management surface over  *)
(* one SQLite storage adapter.  PushCore is configured (VAPID keys,        *)
(* storage and provider adapters, no rate limiter, no hooks); the breaker  *)
(* is the one configure() builds.                                          *)
(***************************************************************************)
CoreBreakerConfig == [failureThreshold |-> 2, resetTimeout |-> 2, halfOpenMaxAttempts |-> 1]

NoResult == [success |-> FALSE, statusCode |-> NoStatus, shouldRetry |-> FALSE,
             retryAfter |-> NoRetryAfter, error |-> NoError]

SendOk == [success |-> TRUE]
SendFailed(enqueued) == [success |-> FALSE, enqueued |-> enqueued]

\* What sendNotification does once provider.send has returned result r for the
\* call c; next is the timestamp calculateNextRetry returned.
sendSuccessUpdates_resetsCount(t) == [failedCount |-> 0]

sendSuccessUpdates(t) == [lastUsedAt |-> t]

sendOutcome(c, r, next, t) ==
    IF r.success
    THEN LET u == updateSubscription(subscriptions, c.subscriptionId, sendSuccessUpdates(t)) IN
         [subs |-> u.subs, queue |-> retry_queue,
          out |-> IF u.ok THEN SendOk ELSE SendFailed(FALSE)]
    ELSE IF shouldRetry(r, 0, retryPolicy.maxRetries)
    THEN LET q == enqueueRetry(subscriptions, retry_queue,
                     [id |-> c.call, subscriptionId |-> c.subscriptionId,
                      payload |-> c.payload, attempt |-> 0, nextRetryAt |-> next,
                      lastError |-> r.error]) IN
         [subs |-> subscriptions, queue |-> q.queue,
          out |-> IF q.ok THEN SendFailed(TRUE) ELSE SendFailed(FALSE)]
    ELSE [subs |-> subscriptions, queue |-> retry_queue, out |-> SendFailed(FALSE)]

\* What processRetry does once provider.send has returned result r for the
\* entry p.entry, whose subscription it read as p.subscription.
workerSuccessUpdates_keepsCount(t) == [lastUsedAt |-> t]

workerSuccessUpdates(t) == [lastUsedAt |-> t, failedCount |-> 0]

workerExpiredUpdates_keepsStatus(subscription) == [failedCount |-> subscription.failedCount + 1]

workerExpiredUpdates(subscription) ==
    [status |-> "expired", failedCount |-> subscription.failedCount + 1]

processOutcome(p, r, next, t) ==
    LET retry == p.entry
        acked == ackRetry(retry_queue, retry.id)
    IN
    IF r.success
    THEN LET u == updateSubscription(subscriptions, retry.subscriptionId,
                                     workerSuccessUpdates(t)) IN
         [subs |-> u.subs, queue |-> acked]
    ELSE IF shouldRetry(r, retry.attempt, workerPolicy.maxRetries)
    THEN LET q == enqueueRetry(subscriptions, retry_queue,
                     [retry EXCEPT !.attempt = retry.attempt + 1, !.nextRetryAt = next,
                                   !.lastError = r.error]) IN
         \* enqueue, then ack; when the enqueue throws, the catch block acks
         [subs |-> subscriptions,
          queue |-> IF q.ok THEN ackRetry(q.queue, retry.id) ELSE acked]
    ELSE LET u == updateSubscription(subscriptions, retry.subscriptionId,
                                     workerExpiredUpdates(p.subscription)) IN
         [subs |-> u.subs, queue |-> acked]

Init ==
    /\ now = 0
    /\ cbConfig = CoreBreakerConfig
    /\ cb = CircuitBreakerInit
    /\ cbInflight = 0
    /\ consecFails = 0
    /\ hoSuccesses = 0
    /\ \E m \in 0..MaxRetriesBound, j \in BOOLEAN :
          retryPolicy = [maxRetries |-> m, baseDelay |-> BaseDelay,
                         backoffFactor |-> BackoffFactor, maxDelay |-> MaxDelay, jitter |-> j]
    /\ \E m \in 0..MaxRetriesBound : workerPolicy = [retryPolicy EXCEPT !.maxRetries = m]
    /\ subscriptions = [s \in SubIds |->
                           [status |-> "active", failedCount |-> 0, lastUsedAt |-> NoTime]]
    /\ retry_queue = {}
    /\ nextCall = 1
    /\ sends = {}
    /\ wBatch = <<>>
    /\ wProcessing = {}
    /\ PushCoreInit([FullConfig EXCEPT !.rateLimiter = FALSE, !.lifecycleHooks = FALSE])
    /\ AuxIdle
    /\ ev = NoEvent

SendEvent(c, how, r, out, subs2, queue2) ==
    [op |-> "send", subscriptionId |-> c.subscriptionId, payload |-> c.payload, call |-> c.call,
     how |-> how, result |-> r, out |-> out, at |-> now,
     rowBefore |-> subscriptions[c.subscriptionId], rowAfter |-> subs2[c.subscriptionId],
     queueBefore |-> retry_queue, queueAfter |-> queue2]

\* sendNotification up to the call of provider.send through the breaker; an
\* open breaker throws, which the catch block turns into a failed result.
sendNotification ==
    \E s \in SubIds, p \in Payloads :
       LET c == [call |-> nextCall, subscriptionId |-> s, payload |-> p]
           g == executeGate(cb, cbConfig, now)
       IN
       /\ nextCall <= MaxSends
       /\ nextCall' = nextCall + 1
       /\ cb' = g.cb
       /\ hoSuccesses' = IF cb.state = "open" /\ g.cb.state = "half-open" THEN 0 ELSE hoSuccesses
       /\ IF g.invoked
          THEN /\ sends' = sends \cup {c}
               /\ invocations' = [invocations EXCEPT ![c.call] = @ + 1]
               /\ ev' = NoEvent
          ELSE /\ UNCHANGED <<sends, invocations>>
               /\ ev' = SendEvent(c, "rejected", NoResult, SendFailed(FALSE),
                                  subscriptions, retry_queue)
       /\ UNCHANGED <<args, rlVars, wkVars, now, cbConfig, cbInflight, consecFails, retryPolicy, workerPolicy,
                      subscriptions, retry_queue, wBatch, wProcessing, pcVars>>

\* provider.send resolved with a ProviderResult.
sendResolved ==
    \E c \in sends, r \in ProviderResults :
    \E next \in calculateNextRetry(0, retryPolicy, r.retryAfter, now) :
       LET o == sendOutcome(c, r, next, now) IN
       /\ sends' = sends \ {c}
       /\ cb' = onSuccess(cb, cbConfig)
       /\ consecFails' = 0
       /\ hoSuccesses' = IF cb.state = "half-open" THEN hoSuccesses + 1 ELSE hoSuccesses
       /\ subscriptions' = o.subs
       /\ retry_queue' = o.queue
       /\ ev' = SendEvent(c, "result", r, o.out, o.subs, o.queue)
       /\ UNCHANGED <<auxVars, now, cbConfig, cbInflight, retryPolicy, workerPolicy, nextCall,
                      wBatch, wProcessing, pcVars>>

\* provider.send threw.
sendRejected ==
    \E c \in sends :
       /\ sends' = sends \ {c}
       /\ cb' = onFailure(cb, cbConfig, now)
       /\ consecFails' = consecFails + 1
       /\ ev' = SendEvent(c, "threw", NoResult, SendFailed(FALSE), subscriptions, retry_queue)
       /\ UNCHANGED <<auxVars, now, cbConfig, cbInflight, hoSuccesses, retryPolicy, workerPolicy,
                      subscriptions, retry_queue, nextCall, wBatch, wProcessing, pcVars>>

\* DELETE /subscriptions/:id of the management surface.
removeSubscription ==
    \E s \in SubIds :
       LET d == deleteSubscription(subscriptions, retry_queue, s) IN
       /\ subscriptions[s] # NoRow
       /\ subscriptions' = d.subs
       /\ retry_queue' = d.queue
       /\ ev' = [op |-> "delete", subscriptionId |-> s, at |-> now]
       /\ UNCHANGED <<auxVars, now, cbVars, retryPolicy, workerPolicy, nextCall, sends,
                      wBatch, wProcessing, pcVars>>

\* RetryWorker.start, one cycle: dequeueRetry(batchSize) returned entries.
workerDequeue ==
    /\ wBatch = <<>>
    /\ wProcessing = {}
    /\ \E q \in dequeueRetry(retry_queue, BatchSize, now) :
          /\ q # <<>>
          /\ wBatch' = q
    /\ ev' = NoEvent
    /\ UNCHANGED <<auxVars, now, cbVars, retryPolicy, workerPolicy, subscriptions, retry_queue,
                   nextCall, sends, wProcessing, pcVars>>

\* processRetriesWithConcurrency starts the next chunk: every processRetry of it
\* looks its subscription up and either acknowledges the entry (no subscription)
\* or calls provider.send.
workerStartChunk ==
    /\ wBatch # <<>>
    /\ wProcessing = {}
    /\ LET n == Min(Concurrency, Len(wBatch))
           chunk == {wBatch[i] : i \in 1..n}
           orphans == {e \in chunk : getSubscriptionById(subscriptions, e.subscriptionId) = NoRow}
       IN
       /\ wBatch' = SubSeq(wBatch, n + 1, Len(wBatch))
       /\ wProcessing' = {[entry |-> e,
                           subscription |-> getSubscriptionById(subscriptions, e.subscriptionId)] :
                             e \in chunk \ orphans}
       /\ retry_queue' = {e \in retry_queue : \A o \in orphans : e.id # o.id}
       /\ invocations' = [k \in 1..MaxSends |->
                             invocations[k] + Cardinality({e \in chunk \ orphans : e.id = k})]
    /\ ev' = NoEvent
    /\ UNCHANGED <<args, rlVars, wkVars, now, cbVars, retryPolicy, workerPolicy, subscriptions,
                   nextCall, sends, pcVars>>

ProcessEvent(p, how, r, subs2, queue2) ==
    [op |-> "process", entry |-> p.entry, read |-> p.subscription,
     how |-> how, result |-> r, at |-> now,
     rowBefore |-> subscriptions[p.entry.subscriptionId],
     rowAfter |-> subs2[p.entry.subscriptionId],
     queueBefore |-> retry_queue, queueAfter |-> queue2]

\* provider.send of a processRetry resolved with a ProviderResult.
processRetryResolved ==
    \E p \in wProcessing, r \in ProviderResults :
    \E next \in calculateNextRetry(p.entry.attempt + 1, workerPolicy, r.retryAfter, now) :
       LET o == processOutcome(p, r, next, now) IN
       /\ wProcessing' = wProcessing \ {p}
       /\ subscriptions' = o.subs
       /\ retry_queue' = o.queue
       /\ ev' = ProcessEvent(p, "result", r, o.subs, o.queue)
       /\ UNCHANGED <<auxVars, now, cbVars, retryPolicy, workerPolicy, nextCall, sends, wBatch, pcVars>>

\* provider.send of a processRetry threw: the catch block acknowledges the entry.
processRetryRejected ==
    \E p \in wProcessing :
       /\ wProcessing' = wProcessing \ {p}
       /\ retry_queue' = ackRetry(retry_queue, p.entry.id)
       /\ ev' = ProcessEvent(p, "threw", NoResult, subscriptions, retry_queue')
       /\ UNCHANGED <<auxVars, now, cbVars, retryPolicy, workerPolicy, subscriptions, nextCall,
                      sends, wBatch, pcVars>>

Next ==
    \/ Tick
    \/ sendNotification
    \/ sendResolved
    \/ sendRejected
    \/ removeSubscription
    \/ workerDequeue
    \/ workerStartChunk
    \/ processRetryResolved
    \/ processRetryRejected

Spec == Init /\ [][Next]_vars

(***************************************************************************)
(* PushCore lifecycle: sendNotification, batchSend and shutdown called on  *)
(* one PushCore, with its shutting-down flag, its in-flight set, the       *)
(* breaker configure() built and the storage adapter shutdown closes.      *)
(* The clock is held in these behaviours (an open breaker stays open); the *)
(* timer of shutdown is the event shutdownTimerFired.                      *)
(***************************************************************************)
CoreBatchConfig == [batchSize |-> 3, concurrency |-> 2]
PCPayload == "p1"

\* The provider results drawn here: a success, a retriable and a final failure.
PCResults == {r \in ProviderResults : r.retryAfter = NoRetryAfter}

\* Subscription objects callers pass in: well-formed ones and, for s1, the four
\* malformed shapes verifySubscription tells apart.
ValidSub(id) == [id |-> id, endpoint |-> TRUE, keys |-> TRUE, p256dh |-> TRUE, auth |-> TRUE]

Malformed ==
    { [ValidSub("s1") EXCEPT !.endpoint = FALSE],
      [ValidSub("s1") EXCEPT !.keys = FALSE, !.p256dh = FALSE, !.auth = FALSE],
      [ValidSub("s1") EXCEPT !.p256dh = FALSE],
      [ValidSub("s1") EXCEPT !.auth = FALSE] }

Subscriptions == {ValidSub(id) : id \in SubIds} \cup Malformed

BatchSubs == {ValidSub(id) : id \in SubIds}

BatchInputs == UNION {[1..n -> BatchSubs] : n \in 0..MaxBatch}

\* TRUE when the check passes, FALSE when it throws.
ensureNotShuttingDown_never(flag) == TRUE

ensureNotShuttingDown(flag) == ~flag

validateConfiguration_skipsStorage(cfg) ==
    /\ cfg.configured
    /\ cfg.vapidKeys
    /\ cfg.publicKey /\ cfg.privateKey

validateConfiguration(cfg) ==
    /\ cfg.configured
    /\ cfg.vapidKeys
    /\ cfg.publicKey /\ cfg.privateKey
    /\ cfg.storageAdapter

verifySubscription(sub) ==
    /\ sub.endpoint
    /\ sub.keys
    /\ sub.p256dh
    /\ sub.auth

Thrown(e) == [thrown |-> e]
Pending == [pending |-> TRUE]
Hooks(cfg) == IF cfg.lifecycleHooks THEN {"hook"} ELSE {}
Limiter(cfg) == IF cfg.rateLimiter THEN {"limiter"} ELSE {}
Gated == {"breakerOpen", "provider"}

\* sendNotification from its call to the call of provider.send: how far it got,
\* what the caller gets (Pending: the operation waits for the provider), whether
\* the operation was tracked, and which collaborators were invoked.
startSend(sub, flag, cfg, b, bcfg, t) ==
    IF ~ensureNotShuttingDown(flag)
    THEN [how |-> "shuttingDown", out |-> Thrown("ShuttingDown"), tracked |-> FALSE,
          touched |-> {}]
    ELSE IF ~validateConfiguration(cfg)
    THEN [how |-> "configuration", out |-> Thrown("ConfigurationError"), tracked |-> FALSE,
          touched |-> {}]
    ELSE IF ~verifySubscription(sub)
    THEN [how |-> "validation", out |-> SendFailed(FALSE), tracked |-> TRUE,
          touched |-> Hooks(cfg)]
    ELSE IF ~executeGate(b, bcfg, t).invoked
    THEN [how |-> "breakerOpen", out |-> SendFailed(FALSE), tracked |-> TRUE,
          touched |-> Hooks(cfg) \cup Limiter(cfg)]
    ELSE [how |-> "provider", out |-> Pending, tracked |-> TRUE,
          touched |-> Hooks(cfg) \cup Limiter(cfg) \cup {"provider"}]

\* Whether sendNotification calls the storage adapter for the provider result r.
touchesStorage(r) == r.success \/ shouldRetry(r, 0, retryPolicy.maxRetries)

\* sendOutcome against a storage adapter that may have been closed: every method
\* of a closed adapter throws, which the catch block turns into a failed result.
closedOutcome(c, r, next, t, closed) ==
    IF closed /\ touchesStorage(r)
    THEN [subs |-> subscriptions, queue |-> retry_queue, out |-> SendFailed(FALSE)]
    ELSE sendOutcome(c, r, next, t)

Entry(id, out) == [subscriptionId |-> id, result |-> out]

\* The .catch of batchSend around each sendNotification call.
catchSend(st) == IF "thrown" \in DOMAIN st.out THEN SendFailed(FALSE) ELSE st.out

\* Ids of the sendNotification calls a batch makes: apart from those of the
\* callers' calls (1..MaxOps) and of the batches (MaxOps+1..MaxOps+MaxBatches).
ChildId(batch, i) == MaxOps + MaxBatches + (batch - MaxOps - 1) * MaxBatch + i

chunkEnd_spans(from, n) == Min(from + CoreBatchConfig.concurrency - 1, n)

\* Last index of the chunk that starts at index from, for n subscriptions.
chunkEnd(from, n) ==
    Min(Min(from + CoreBatchConfig.concurrency - 1,
            ((from - 1) \div CoreBatchConfig.batchSize + 1) * CoreBatchConfig.batchSize), n)

\* chunk.map(subscription => this.sendNotification(...).catch(...)) for the chunk
\* of batch b that starts at index from.
startChunk(b, from, flag, cfg, breaker, bcfg, t) ==
    LET to == chunkEnd(from, Len(b.subscriptions))
        st(i) == startSend(b.subscriptions[i], flag, cfg, breaker, bcfg, t)
    IN  [chunk |-> [i \in from..to |->
                       Entry(b.subscriptions[i].id,
                             IF st(i).how = "provider" THEN Pending ELSE catchSend(st(i)))],
         sends |-> {[call |-> ChildId(b.id, i), subscriptionId |-> b.subscriptions[i].id,
                     payload |-> b.payload, batch |-> b.id, index |-> i] :
                       i \in {j \in from..to : st(j).how = "provider"}},
         attempted |-> {i \in from..to : st(i).how = "provider"},
         refused |-> {i \in from..to : st(i).how = "shuttingDown"},
         gated |-> \E i \in from..to : st(i).how \in Gated]

\* results.push(...chunkResults)
collect_reversed(b) ==
    LET from == b.pos
        to == chunkEnd(from, Len(b.subscriptions))
    IN  b.results \o [k \in 1..(to - from + 1) |-> b.chunk[to - k + 1]]

collect(b) ==
    LET from == b.pos
        to == chunkEnd(from, Len(b.subscriptions))
    IN  b.results \o [k \in 1..(to - from + 1) |-> b.chunk[from + k - 1]]

\* The statistics loop over chunkResults.
countResults_retriedAll(b) ==
    LET ok == {i \in DOMAIN b.chunk : b.chunk[i].result.success}
        ko == DOMAIN b.chunk \ ok
    IN  [successCount |-> b.successCount + Cardinality(ok),
         failedCount |-> b.failedCount + Cardinality(ko),
         retriedCount |-> b.retriedCount + Cardinality(ko)]

countResults(b) ==
    LET ok == {i \in DOMAIN b.chunk : b.chunk[i].result.success}
        ko == DOMAIN b.chunk \ ok
    IN  [successCount |-> b.successCount + Cardinality(ok),
         failedCount |-> b.failedCount + Cardinality(ko),
         retriedCount |-> b.retriedCount + Cardinality({i \in ko : b.chunk[i].result.enqueued})]

\* The result delivered to the batch that waits for the call c, if any.
deliver(bs, c, out) ==
    {IF b.id = c.batch THEN [b EXCEPT !.chunk[c.index] = Entry(c.subscriptionId, out)] ELSE b :
        b \in bs}

\* shutdown up to Promise.race: the flag after the call and the wait it starts.
shutdownStart_noGuard(flag, inflight) ==
    [flag |-> TRUE, started |-> {[waitFor |-> inflight, fired |-> FALSE]}]

shutdownStart(flag, inflight) ==
    IF flag
    THEN [flag |-> flag, started |-> {}]
    ELSE [flag |-> TRUE, started |-> {[waitFor |-> inflight, fired |-> FALSE]}]

\* Promise.race([Promise.all(in-flight operations), timer]) has resolved.
shutdownMayClose_noWait(s, inflight) == TRUE

shutdownMayClose_ignoresTimer(s, inflight) == s.waitFor \cap inflight = {}

shutdownMayClose(s, inflight) == s.fired \/ s.waitFor \cap inflight = {}

InitPC ==
    /\ now = 0
    /\ cbConfig = CoreBreakerConfig
    /\ cb = CircuitBreakerInit
    /\ cbInflight = 0
    /\ consecFails = 0
    /\ hoSuccesses = 0
    /\ retryPolicy = [maxRetries |-> MaxRetriesBound, baseDelay |-> BaseDelay,
                      backoffFactor |-> BackoffFactor, maxDelay |-> MaxDelay, jitter |-> FALSE]
    /\ workerPolicy = retryPolicy
    /\ subscriptions = [s \in SubIds |->
                           [status |-> "active", failedCount |-> 0, lastUsedAt |-> NoTime]]
    /\ retry_queue = {}
    /\ nextCall = 1
    /\ sends = {}
    /\ wBatch = <<>>
    /\ wProcessing = {}
    /\ \E cfg \in Configs : PushCoreInit(cfg)
    /\ AuxIdle
    /\ ev = NoEvent

CallEvent(kind, input, st) ==
    [op |-> "call", kind |-> kind, input |-> input, how |-> st.how, out |-> st.out,
     tracked |-> st.tracked, touched |-> st.touched, wasShuttingDown |-> isShuttingDown,
     inFlightBefore |-> inFlightOperations]

\* A caller calls sendNotification.
callSendNotification ==
    \E sub \in Subscriptions :
       LET st == startSend(sub, isShuttingDown, config, cb, cbConfig, now)
           g == executeGate(cb, cbConfig, now)
           c == [call |-> nextCall, subscriptionId |-> sub.id, payload |-> PCPayload,
                 batch |-> 0, index |-> 0]
       IN
       /\ nextCall <= MaxOps
       /\ nextCall' = nextCall + 1
       /\ cb' = IF st.how \in Gated THEN g.cb ELSE cb
       /\ hoSuccesses' = IF cb.state = "open" /\ cb'.state = "half-open" THEN 0 ELSE hoSuccesses
       /\ sends' = IF st.how = "provider" THEN sends \cup {c} ELSE sends
       /\ inFlightOperations' = IF st.how = "provider" THEN inFlightOperations \cup {c.call}
                                ELSE inFlightOperations
       /\ ev' = CallEvent("sendNotification", sub, st)
       /\ UNCHANGED <<auxVars, now, cbConfig, cbInflight, consecFails, retryPolicy, workerPolicy,
                      subscriptions, retry_queue, wBatch, wProcessing, config, isShuttingDown,
                      batchCalls, batches, shutdowns, closeCalls, timedOut, failedResults>>

OperationEvent(c, how, r, out, storage) ==
    [op |-> "operation", call |-> c.call, subscriptionId |-> c.subscriptionId, batch |-> c.batch,
     how |-> how, result |-> r, out |-> out, at |-> now, storage |-> storage,
     closed |-> closeCalls > 0]

\* provider.send of a tracked sendNotification resolved with a ProviderResult.
providerResolved ==
    \E c \in sends, r \in PCResults :
    \E next \in calculateNextRetry(0, retryPolicy, r.retryAfter, now) :
       LET o == closedOutcome(c, r, next, now, closeCalls > 0) IN
       /\ sends' = sends \ {c}
       /\ inFlightOperations' = inFlightOperations \ {c.call}
       /\ cb' = onSuccess(cb, cbConfig)
       /\ consecFails' = 0
       /\ hoSuccesses' = IF cb.state = "half-open" THEN hoSuccesses + 1 ELSE hoSuccesses
       /\ failedResults' = IF r.success THEN 0 ELSE failedResults + 1
       /\ subscriptions' = o.subs
       /\ retry_queue' = o.queue
       /\ batches' = deliver(batches, c, o.out)
       /\ ev' = OperationEvent(c, "result", r, o.out, touchesStorage(r))
       /\ UNCHANGED <<auxVars, now, cbConfig, cbInflight, retryPolicy, workerPolicy, nextCall,
                      wBatch, wProcessing, config, isShuttingDown, batchCalls, shutdowns,
                      closeCalls, timedOut>>

\* provider.send of a tracked sendNotification threw.
providerRejected ==
    \E c \in sends :
       /\ sends' = sends \ {c}
       /\ inFlightOperations' = inFlightOperations \ {c.call}
       /\ cb' = onFailure(cb, cbConfig, now)
       /\ consecFails' = consecFails + 1
       /\ failedResults' = 0
       /\ batches' = deliver(batches, c, SendFailed(FALSE))
       /\ ev' = OperationEvent(c, "threw", NoResult, SendFailed(FALSE), FALSE)
       /\ UNCHANGED <<auxVars, now, cbConfig, cbInflight, hoSuccesses, retryPolicy, workerPolicy,
                      subscriptions, retry_queue, nextCall, wBatch, wProcessing, config,
                      isShuttingDown, batchCalls, shutdowns, closeCalls, timedOut>>

\* batchSend(input, payload): the checks, then the first chunk's sendNotification
\* calls, then the operation is tracked.
batchSendOf(input) ==
       LET refusal == startSend(ValidSub("s1"), isShuttingDown, config, CircuitBreakerInit,
                                cbConfig, now)
           b0 == [id |-> MaxOps + batchCalls + 1, subscriptions |-> input,
                  payload |-> PCPayload, pos |-> 1,
                  chunk |-> <<>>, results |-> <<>>, successCount |-> 0, failedCount |-> 0,
                  retriedCount |-> 0, attempted |-> {}, refused |-> {}]
           k == startChunk(b0, 1, isShuttingDown, config, cb, cbConfig, now)
           g == executeGate(cb, cbConfig, now)
       IN
       /\ batchCalls < MaxBatches
       /\ batchCalls' = batchCalls + 1
       /\ IF refusal.how \in {"shuttingDown", "configuration"}
          THEN /\ ev' = CallEvent("batchSend", input, refusal)
               /\ UNCHANGED <<cb, hoSuccesses, sends, inFlightOperations, batches>>
          ELSE /\ cb' = IF k.gated THEN g.cb ELSE cb
               /\ hoSuccesses' = IF cb.state = "open" /\ cb'.state = "half-open" THEN 0
                                 ELSE hoSuccesses
               /\ sends' = sends \cup k.sends
               /\ inFlightOperations' = inFlightOperations \cup {c.call : c \in k.sends}
                                           \cup {b0.id}
               /\ batches' = batches \cup {[b0 EXCEPT !.chunk = k.chunk,
                                                      !.attempted = k.attempted,
                                                      !.refused = k.refused]}
               /\ ev' = [op |-> "call", kind |-> "batchSend", input |-> input,
                         how |-> "started", out |-> Pending, tracked |-> TRUE,
                         touched |-> {}, wasShuttingDown |-> isShuttingDown,
                         inFlightBefore |-> inFlightOperations]
       /\ UNCHANGED <<auxVars, now, cbConfig, cbInflight, consecFails, retryPolicy, workerPolicy,
                      subscriptions, retry_queue, nextCall, wBatch, wProcessing, config,
                      isShuttingDown, shutdowns, closeCalls, timedOut, failedResults>>

\* A caller calls batchSend.
callBatchSend == \E input \in BatchInputs : batchSendOf(input)

\* Promise.all of a chunk resolved: its results are pushed and counted, and
\* batchSend starts the next chunk or returns the BatchResult.
batchChunkSettled ==
    \E b \in batches :
       LET n == Len(b.subscriptions)
           from == chunkEnd(b.pos, n) + 1
           counts == countResults(b)
           b1 == [b EXCEPT !.results = collect(b), !.successCount = counts.successCount,
                           !.failedCount = counts.failedCount,
                           !.retriedCount = counts.retriedCount, !.pos = from]
           k == startChunk(b1, from, isShuttingDown, config, cb, cbConfig, now)
           g == executeGate(cb, cbConfig, now)
       IN
       /\ \A i \in DOMAIN b.chunk : b.chunk[i].result # Pending
       /\ IF from > n
          THEN /\ batches' = batches \ {b}
               /\ inFlightOperations' = inFlightOperations \ {b.id}
               /\ ev' = [op |-> "batchDone", input |-> b.subscriptions,
                         result |-> [total |-> n, success |-> b1.successCount,
                                     failed |-> b1.failedCount, retried |-> b1.retriedCount,
                                     results |-> b1.results],
                         attempted |-> b.attempted, refused |-> b.refused,
                         timedOut |-> timedOut]
               /\ UNCHANGED <<cb, hoSuccesses, sends>>
          ELSE /\ cb' = IF k.gated THEN g.cb ELSE cb
               /\ hoSuccesses' = IF cb.state = "open" /\ cb'.state = "half-open" THEN 0
                                 ELSE hoSuccesses
               /\ sends' = sends \cup k.sends
               /\ inFlightOperations' = inFlightOperations \cup {c.call : c \in k.sends}
               /\ batches' = (batches \ {b}) \cup
                                {[b1 EXCEPT !.chunk = k.chunk,
                                            !.attempted = b.attempted \cup k.attempted,
                                            !.refused = b.refused \cup k.refused]}
               /\ ev' = NoEvent
       /\ UNCHANGED <<auxVars, now, cbConfig, cbInflight, consecFails, retryPolicy, workerPolicy,
                      subscriptions, retry_queue, nextCall, wBatch, wProcessing, config,
                      isShuttingDown, batchCalls, shutdowns, closeCalls, timedOut,
                      failedResults>>

\* A caller calls shutdown(timeout).
callShutdown ==
    LET s == shutdownStart(isShuttingDown, inFlightOperations) IN
    /\ isShuttingDown' = s.flag
    /\ shutdowns' = shutdowns \cup s.started
    /\ ev' = [op |-> "shutdown", noop |-> s.started = {}, wasShuttingDown |-> isShuttingDown,
              closeCalls |-> closeCalls]
    /\ UNCHANGED <<auxVars, now, cbVars, coreVars, config, inFlightOperations, batchCalls, batches,
                   closeCalls, timedOut, failedResults>>

\* The timer of a waiting shutdown fires.
shutdownTimerFired ==
    \E s \in shutdowns :
       /\ ~s.fired
       /\ shutdowns' = (shutdowns \ {s}) \cup {[s EXCEPT !.fired = TRUE]}
       /\ timedOut' = (timedOut \/ s.waitFor \cap inFlightOperations # {})
       /\ ev' = NoEvent
       /\ UNCHANGED <<auxVars, now, cbVars, coreVars, config, isShuttingDown, inFlightOperations,
                      batchCalls, batches, closeCalls, failedResults>>

\* Promise.race resolved: shutdown closes the storage adapter and resolves.
shutdownFinished ==
    \E s \in shutdowns :
       /\ shutdownMayClose(s, inFlightOperations)
       /\ shutdowns' = shutdowns \ {s}
       /\ closeCalls' = IF config.configured /\ config.storageAdapter THEN closeCalls + 1
                        ELSE closeCalls
       /\ ev' = [op |-> "shutdownDone", waitedFor |-> s.waitFor,
                 pending |-> s.waitFor \cap inFlightOperations, fired |-> s.fired,
                 timedOut |-> timedOut]
       /\ UNCHANGED <<auxVars, now, cbVars, coreVars, config, isShuttingDown, inFlightOperations,
                      batchCalls, batches, timedOut, failedResults>>

NextPC ==
    \/ callSendNotification
    \/ providerResolved
    \/ providerRejected
    \/ callBatchSend
    \/ batchChunkSettled
    \/ callShutdown
    \/ shutdownTimerFired
    \/ shutdownFinished

SpecPC == InitPC /\ [][NextPC]_vars

\* The timer of a shutdown fires, and a resolved race is acted on.
SpecPCLive == SpecPC /\ WF_vars(shutdownTimerFired) /\ WF_vars(shutdownFinished)

(***************************************************************************)
(* One batchSend over more subscriptions than batchSize, on a PushCore     *)
(* that is not shut down.                                                  *)
(***************************************************************************)
InitBatch ==
    /\ now = 0
    /\ cbConfig = CoreBreakerConfig
    /\ cb = CircuitBreakerInit
    /\ cbInflight = 0
    /\ consecFails = 0
    /\ hoSuccesses = 0
    /\ retryPolicy = [maxRetries |-> MaxRetriesBound, baseDelay |-> BaseDelay,
                      backoffFactor |-> BackoffFactor, maxDelay |-> MaxDelay, jitter |-> FALSE]
    /\ workerPolicy = retryPolicy
    /\ subscriptions = [s \in SubIds |->
                           [status |-> "active", failedCount |-> 0, lastUsedAt |-> NoTime]]
    /\ retry_queue = {}
    /\ nextCall = 1
    /\ sends = {}
    /\ wBatch = <<>>
    /\ wProcessing = {}
    /\ PushCoreInit([FullConfig EXCEPT !.rateLimiter = FALSE, !.lifecycleHooks = FALSE])
    /\ AuxIdle
    /\ ev = NoEvent

\* A caller calls batchSend with more than batchSize subscriptions.
callLongBatchSend ==
    \E n \in (CoreBatchConfig.batchSize + 1)..MaxLongBatch :
    \E input \in [1..n -> BatchSubs] : batchSendOf(input)

NextBatch ==
    \/ callLongBatchSend
    \/ providerResolved
    \/ providerRejected
    \/ batchChunkSettled

SpecBatch == InitBatch /\ [][NextBatch]_vars

(***************************************************************************)
(* shouldRetry and calculateNextRetry by themselves: one call on arguments *)
(* drawn from every combination of status code, flag, attempt and policy.  *)
(***************************************************************************)
AnyResults ==
    [success : BOOLEAN, statusCode : {NoStatus, 200, 400, 404, 410, 429, 499, 500, 503, 599, 600},
     shouldRetry : BOOLEAN, retryAfter : {NoRetryAfter}, error : {NoError}]

AnyPolicies ==
    [maxRetries : {MaxAttempt}, baseDelay : 1..BaseDelay, backoffFactor : 1..(BackoffFactor + 1),
     maxDelay : {1, MaxDelay, 4 * MaxDelay}, jitter : BOOLEAN]

ShouldRetryArgs ==
    [fn : {"shouldRetry"}, result : AnyResults, attempt : 0..MaxAttempt,
     maxRetries : 0..MaxAttempt]

CalculateNextRetryArgs ==
    [fn : {"calculateNextRetry"}, attempt : 0..MaxAttempt, policy : AnyPolicies,
     retryAfter : {NoRetryAfter} \cup 0..MaxRetryAfter]

\* Breaker, storage, worker and PushCore as constructed, with nothing in progress.
Quiet ==
    /\ cbConfig = CoreBreakerConfig
    /\ cb = CircuitBreakerInit
    /\ cbInflight = 0
    /\ consecFails = 0
    /\ hoSuccesses = 0
    /\ ev = NoEvent
    /\ retryPolicy = [maxRetries |-> 0, baseDelay |-> BaseDelay, backoffFactor |-> BackoffFactor,
                      maxDelay |-> MaxDelay, jitter |-> FALSE]
    /\ workerPolicy = retryPolicy
    /\ subscriptions = [s \in SubIds |-> NoRow]
    /\ retry_queue = {}
    /\ nextCall = 1
    /\ sends = {}
    /\ wBatch = <<>>
    /\ wProcessing = {}
    /\ PushCoreInit(Unconfigured)

InitFn ==
    /\ now \in 0..1
    /\ Quiet
    /\ args \in ShouldRetryArgs \cup CalculateNextRetryArgs
    /\ LimiterIdle
    /\ WorkerIdle

applyShouldRetry ==
    /\ args.fn = "shouldRetry"
    /\ ev = NoEvent
    /\ ev' = [op |-> "shouldRetry",
              value |-> shouldRetry(args.result, args.attempt, args.maxRetries)]
    /\ UNCHANGED <<now, cbVars, coreVars, pcVars, auxVars>>

applyCalculateNextRetry ==
    /\ args.fn = "calculateNextRetry"
    /\ ev = NoEvent
    /\ \E next \in calculateNextRetry(args.attempt, args.policy, args.retryAfter, now) :
          ev' = [op |-> "calculateNextRetry", value |-> next]
    /\ UNCHANGED <<now, cbVars, coreVars, pcVars, auxVars>>

NextFn ==
    \/ applyShouldRetry
    \/ applyCalculateNextRetry

SpecFn == InitFn /\ [][NextFn]_vars

(***************************************************************************)
(* Token bucket rate limiter (TokenBucketRateLimiter.ts), driven by        *)
(* overlapping acquire, tryAcquire and getAvailableTokens callers.         *)
(* Token counts are in thousandths of a token: elapsed milliseconds times  *)
(* refillRate (tokens per second) is a whole number of them.               *)
(***************************************************************************)
RefillRates == {5, 10}

Milli(n) == n * MsPerSec

\* The elapsed time from which on refill fills the bucket whatever it holds;
\* sinceRefill is not counted beyond it.
Full(cfg) == (Milli(cfg.capacity) + cfg.refillRate - 1) \div cfg.refillRate

refill_uncapped(tok, cfg, elapsed) == tok + elapsed * cfg.refillRate

refill_noElapsed(tok, cfg, elapsed) == Min(Milli(cfg.capacity), tok)

\* this.tokens after refill(), elapsed ms after lastRefill.
refill(tok, cfg, elapsed) == Min(Milli(cfg.capacity), tok + elapsed * cfg.refillRate)

tryAcquireOf_strict(tok, n) ==
    IF tok > Milli(n) THEN [value |-> TRUE, tokens |-> tok - Milli(n)]
    ELSE [value |-> FALSE, tokens |-> tok]

\* tryAcquire after its refill(): the value returned and this.tokens.
tryAcquireOf(tok, n) ==
    IF tok >= Milli(n) THEN [value |-> TRUE, tokens |-> tok - Milli(n)]
    ELSE [value |-> FALSE, tokens |-> tok]

acquireOf_strict(tok, n) ==
    IF tok <= Milli(n) THEN [returns |-> FALSE, tokens |-> tok]
    ELSE [returns |-> TRUE, tokens |-> tok - Milli(n)]

\* acquire after a refill(): the loop test `this.tokens < tokens` and, when it
\* fails, the deduction that follows it without an await in between.
acquireOf(tok, n) ==
    IF tok < Milli(n) THEN [returns |-> FALSE, tokens |-> tok]
    ELSE [returns |-> TRUE, tokens |-> tok - Milli(n)]

InitRL ==
    /\ now = 0
    /\ Quiet
    /\ args = NoArgs
    /\ rlConfig \in [capacity : 1..MaxCapacity, refillRate : RefillRates]
    /\ tokens = Milli(rlConfig.capacity)
    /\ sinceRefill = 0
    /\ waiters = {}
    /\ WorkerIdle

LimiterEvent(op, id, n, value, tok) ==
    [op |-> op, id |-> id, n |-> n, value |-> value, before |-> tokens,
     elapsed |-> sinceRefill, tokens |-> tok]

\* The clock of the rate limiter advances by half a sleep of acquire at a time.
TimeStep == SleepMs \div 2

\* Time passes: the timers of the sleeping acquire calls run down.
advanceTime ==
    /\ sinceRefill' = Min(sinceRefill + TimeStep, Full(rlConfig))
    /\ waiters' = { [w EXCEPT !.sleep = IF w.sleep > TimeStep THEN w.sleep - TimeStep ELSE 0] :
                    w \in waiters }
    /\ ev' = NoEvent
    /\ UNCHANGED <<now, cbVars, coreVars, pcVars, args, wkVars, invocations, rlConfig, tokens>>

tryAcquire ==
    \E n \in 1..(MaxCapacity + 1) :
       LET r == tryAcquireOf(refill(tokens, rlConfig, sinceRefill), n) IN
       /\ tokens' = r.tokens
       /\ sinceRefill' = 0
       /\ ev' = LimiterEvent("tryAcquire", 0, n, r.value, r.tokens)
       /\ UNCHANGED <<now, cbVars, coreVars, pcVars, args, wkVars, invocations, rlConfig, waiters>>

getAvailableTokens ==
    LET tok == refill(tokens, rlConfig, sinceRefill) IN
    /\ tokens' = tok
    /\ sinceRefill' = 0
    /\ ev' = LimiterEvent("getAvailableTokens", 0, 0, tok \div MsPerSec, tok)
    /\ UNCHANGED <<now, cbVars, coreVars, pcVars, args, wkVars, invocations, rlConfig, waiters>>

\* acquire(n) is called: it returns at once or goes to sleep.
acquire ==
    \E n \in 1..(MaxCapacity + 1), id \in 1..MaxWaiters :
       LET r == acquireOf(refill(tokens, rlConfig, sinceRefill), n) IN
       /\ \A w \in waiters : w.id # id
       /\ tokens' = r.tokens
       /\ sinceRefill' = 0
       /\ IF r.returns
          THEN /\ waiters' = waiters
               /\ ev' = LimiterEvent("acquire", id, n, TRUE, r.tokens)
          ELSE /\ waiters' = waiters \cup {[id |-> id, n |-> n, sleep |-> SleepMs]}
               /\ ev' = NoEvent
       /\ UNCHANGED <<now, cbVars, coreVars, pcVars, args, wkVars, invocations, rlConfig>>

\* The sleep of the waiting acquire w ends: refill, test again.
wake(w) ==
    LET r == acquireOf(refill(tokens, rlConfig, sinceRefill), w.n) IN
    /\ w.sleep = 0
    /\ tokens' = r.tokens
    /\ sinceRefill' = 0
    /\ IF r.returns
       THEN /\ waiters' = waiters \ {w}
            /\ ev' = LimiterEvent("acquire", w.id, w.n, TRUE, r.tokens)
       ELSE /\ waiters' = (waiters \ {w}) \cup {[w EXCEPT !.sleep = SleepMs]}
            /\ ev' = NoEvent
    /\ UNCHANGED <<now, cbVars, coreVars, pcVars, args, wkVars, invocations, rlConfig>>

acquireWakes == \E w \in waiters : wake(w)

NextRL ==
    \/ advanceTime
    \/ tryAcquire
    \/ getAvailableTokens
    \/ acquire
    \/ acquireWakes

SpecRL == InitRL /\ [][NextRL]_vars

\* Time advances and every timer that ran down fires.
SpecRLLive ==
    /\ SpecRL
    /\ WF_vars(advanceTime)
    /\ \A id \in 1..MaxWaiters : WF_vars(\E w \in waiters : w.id = id /\ wake(w))

(***************************************************************************)
(* sendNotification on a PushCore configured with a TokenBucketRateLimiter *)
(* and a circuit breaker: overlapping calls that acquire a token, pass the *)
(* breaker and call the provider.  The clock of the breaker is held: its  *)
(* resetTimeout is long against the sleeps of acquire.                     *)
(***************************************************************************)
limitedGate_breakerFirst(tok, b, bcfg, t) ==
    LET g == executeGate(b, bcfg, t)
        a == acquireOf(tok, 1)
    IN  IF ~g.invoked THEN [stage |-> "breakerOpen", tokens |-> tok, cb |-> g.cb]
        ELSE IF ~a.returns THEN [stage |-> "acquire", tokens |-> a.tokens, cb |-> b]
        ELSE [stage |-> "provider", tokens |-> a.tokens, cb |-> g.cb]

\* `await rateLimiter.acquire()` after its refill(), then circuitBreaker.execute:
\* the call stays in acquire, is rejected by the breaker, or calls the provider.
limitedGate(tok, b, bcfg, t) ==
    LET a == acquireOf(tok, 1)
        g == executeGate(b, bcfg, t)
    IN  IF ~a.returns THEN [stage |-> "acquire", tokens |-> a.tokens, cb |-> b]
        ELSE [stage |-> IF g.invoked THEN "provider" ELSE "breakerOpen",
              tokens |-> a.tokens, cb |-> g.cb]

\* A configured PushCore with a full bucket, whose breaker is closed or has just
\* opened, over a storage that holds both subscriptions.
InitPipe ==
    /\ now = 0
    /\ cbConfig = CoreBreakerConfig
    /\ cb \in {CircuitBreakerInit,
               [state |-> "open", failureCount |-> CoreBreakerConfig.failureThreshold,
                successCount |-> 0, lastFailureTime |-> 0]}
    /\ cbInflight = 0
    /\ consecFails = 0
    /\ hoSuccesses = 0
    /\ retryPolicy = [maxRetries |-> MaxRetriesBound, baseDelay |-> BaseDelay,
                      backoffFactor |-> BackoffFactor, maxDelay |-> MaxDelay, jitter |-> FALSE]
    /\ workerPolicy = retryPolicy
    /\ subscriptions = [s \in SubIds |->
                           [status |-> "active", failedCount |-> 0, lastUsedAt |-> NoTime]]
    /\ retry_queue = {}
    /\ nextCall = 1
    /\ sends = {}
    /\ wBatch = <<>>
    /\ wProcessing = {}
    /\ PushCoreInit([FullConfig EXCEPT !.lifecycleHooks = FALSE])
    /\ args = NoArgs
    /\ rlConfig \in [capacity : 1..MaxCapacity, refillRate : RefillRates]
    /\ tokens = Milli(rlConfig.capacity)
    /\ sinceRefill = 0
    /\ waiters = {}
    /\ WorkerIdle
    /\ ev = NoEvent

\* The call c runs from the refill() of acquire (at the call, or when its sleep
\* ended: slept) up to its next await.
throughLimiter(c, slept) ==
    LET tok == refill(tokens, rlConfig, sinceRefill)
        k == limitedGate(tok, cb, cbConfig, now)
        others == {w \in waiters : w.id # c.call}
    IN
    /\ tokens' = k.tokens
    /\ sinceRefill' = 0
    /\ cb' = k.cb
    /\ hoSuccesses' = IF cb.state = "open" /\ k.cb.state = "half-open" THEN 0 ELSE hoSuccesses
    /\ waiters' = IF k.stage = "acquire"
                  THEN others \cup {[id |-> c.call, n |-> 1, sleep |-> SleepMs,
                                     subscriptionId |-> c.subscriptionId, payload |-> c.payload]}
                  ELSE others
    /\ sends' = IF k.stage = "provider" THEN sends \cup {c} ELSE sends
    /\ ev' = IF k.stage = "acquire" THEN NoEvent
             ELSE [op |-> "gate", call |-> c.call, stage |-> k.stage, slept |-> slept,
                   before |-> tok, tokens |-> k.tokens, breaker |-> cb.state,
                   out |-> IF k.stage = "provider" THEN Pending ELSE SendFailed(FALSE)]

\* A caller calls sendNotification.
limitedSendNotification ==
    \E s \in {"s1"} :
       /\ nextCall <= MaxLimited
       /\ nextCall' = nextCall + 1
       /\ throughLimiter([call |-> nextCall, subscriptionId |-> s, payload |-> PCPayload], FALSE)
       /\ UNCHANGED <<now, cbConfig, cbInflight, consecFails, retryPolicy, workerPolicy,
                      subscriptions, retry_queue, wBatch, wProcessing, pcVars, args, rlConfig,
                      wkVars, invocations>>

\* The sleep of a call waiting in acquire ends.
limitedSendWakes ==
    \E w \in waiters :
       /\ w.sleep = 0
       /\ throughLimiter([call |-> w.id, subscriptionId |-> w.subscriptionId,
                          payload |-> w.payload], TRUE)
       /\ UNCHANGED <<now, cbConfig, cbInflight, consecFails, retryPolicy, workerPolicy,
                      subscriptions, retry_queue, nextCall, wBatch, wProcessing, pcVars, args,
                      rlConfig, wkVars, invocations>>

NextPipe ==
    \/ limitedSendNotification
    \/ limitedSendWakes
    \/ advanceTime
    \/ sendResolved
    \/ sendRejected

SpecPipe == InitPipe /\ [][NextPipe]_vars

(***************************************************************************)
(* One sendNotification call from its first statement to its return, as a  *)
(* function of what its collaborators do: which lifecycle hooks throw,     *)
(* whether the rate limiter grants or throws, whether there is a provider  *)
(* adapter and what provider.send does, the breaker's state and the rows   *)
(* of the storage adapter.                                                 *)
(***************************************************************************)
HookNames == {"onSend", "onSuccess", "onFailure", "onRetry"}

ProviderBehaviours ==
    {[how |-> h, result |-> NoResult] : h \in {"missing", "throws"}}
        \cup {[how |-> "returns", result |-> r] : r \in ProviderResults}

SendArgs ==
    [fn : {"sendNotification"}, subscription : Subscriptions, throwing : SUBSET HookNames,
     rateLimiter : {"none", "grants", "throws"}, provider : ProviderBehaviours]

emitHook_propagates(throwing, hookName) == hookName \in throwing

\* TRUE when the exception of a throwing hook leaves emitHook.
emitHook(throwing, hookName) == FALSE

Ran(out, raised, hooks, calls, subs, queue, b) ==
    [out |-> out, raised |-> raised, hooks |-> hooks, calls |-> calls, subs |-> subs,
     queue |-> queue, cb |-> b]

catchAll_rethrows(a, raised, hooks, calls, subs, queue, b) ==
    Ran(Thrown(raised), raised, hooks, calls, subs, queue, b)

\* The catch block of sendNotification.
catchAll(a, raised, hooks, calls, subs, queue, b) ==
    Ran(IF emitHook(a.throwing, "onFailure") THEN Thrown("hook") ELSE SendFailed(FALSE),
        raised, Append(hooks, "onFailure"), calls, subs, queue, b)

\* The async body of sendNotification for the arguments a, on the tables subs
\* and queue and the breaker b; id is the randomUUID of the retry entry and
\* next the timestamp calculateNextRetry returns.
runSend(a, subs, queue, b, bcfg, policy, t, id, next) ==
    LET sub == a.subscription
        lim == IF a.rateLimiter = "none" THEN {} ELSE {"limiter"}
        g == executeGate(b, bcfg, t)
        r == a.provider.result
    IN
    IF emitHook(a.throwing, "onSend")
    THEN catchAll(a, "hook", <<"onSend">>, {}, subs, queue, b)
    ELSE IF ~verifySubscription(sub)
    THEN catchAll(a, "validation", <<"onSend">>, {}, subs, queue, b)
    ELSE IF a.rateLimiter = "throws"
    THEN catchAll(a, "limiter", <<"onSend">>, lim, subs, queue, b)
    ELSE IF a.provider.how = "missing"
    THEN catchAll(a, "configuration", <<"onSend">>, lim, subs, queue, b)
    ELSE IF ~g.invoked
    THEN catchAll(a, "breaker", <<"onSend">>, lim, subs, queue, g.cb)
    ELSE IF a.provider.how = "throws"
    THEN catchAll(a, "provider", <<"onSend">>, lim \cup {"provider"}, subs, queue,
                  onFailure(g.cb, bcfg, t))
    ELSE LET b2 == onSuccess(g.cb, bcfg)
             calls == lim \cup {"provider"}
         IN
         IF r.success
         THEN LET u == updateSubscription(subs, sub.id, sendSuccessUpdates(t)) IN
              IF ~u.ok
              THEN catchAll(a, "storage", <<"onSend">>, calls, subs, queue, b2)
              ELSE IF emitHook(a.throwing, "onSuccess")
              THEN catchAll(a, "hook", <<"onSend", "onSuccess">>, calls, u.subs, queue, b2)
              ELSE Ran(SendOk, "none", <<"onSend", "onSuccess">>, calls, u.subs, queue, b2)
         ELSE IF shouldRetry(r, 0, policy.maxRetries)
         THEN LET q == enqueueRetry(subs, queue,
                          [id |-> id, subscriptionId |-> sub.id, payload |-> PCPayload,
                           attempt |-> 0, nextRetryAt |-> next, lastError |-> r.error]) IN
              IF ~q.ok
              THEN catchAll(a, "storage", <<"onSend">>, calls, subs, queue, b2)
              ELSE IF emitHook(a.throwing, "onRetry")
              THEN catchAll(a, "hook", <<"onSend", "onRetry">>, calls, subs, q.queue, b2)
              ELSE Ran(SendFailed(TRUE), "none", <<"onSend", "onRetry">>, calls, subs,
                       q.queue, b2)
         ELSE IF emitHook(a.throwing, "onFailure")
         THEN catchAll(a, "hook", <<"onSend", "onFailure">>, calls, subs, queue, b2)
         ELSE Ran(SendFailed(FALSE), "none", <<"onSend", "onFailure">>, calls, subs, queue, b2)

\* A configured PushCore, shut down or not, whose storage holds s1 and not s2
\* and whose breaker is closed or has just opened.
InitSend ==
    /\ now = 0
    /\ cbConfig = CoreBreakerConfig
    /\ cb \in {CircuitBreakerInit,
               [state |-> "open", failureCount |-> CoreBreakerConfig.failureThreshold,
                successCount |-> 0, lastFailureTime |-> 0]}
    /\ cbInflight = 0
    /\ consecFails = 0
    /\ hoSuccesses = 0
    /\ retryPolicy = [maxRetries |-> MaxRetriesBound, baseDelay |-> BaseDelay,
                      backoffFactor |-> BackoffFactor, maxDelay |-> MaxDelay, jitter |-> FALSE]
    /\ workerPolicy = retryPolicy
    /\ subscriptions = [s \in SubIds |->
                           IF s = "s1"
                           THEN [status |-> "active", failedCount |-> 0, lastUsedAt |-> NoTime]
                           ELSE NoRow]
    /\ retry_queue = {}
    /\ nextCall = 1
    /\ sends = {}
    /\ wBatch = <<>>
    /\ wProcessing = {}
    /\ config \in {FullConfig, [FullConfig EXCEPT !.storageAdapter = FALSE]}
    /\ isShuttingDown \in BOOLEAN
    /\ inFlightOperations = {}
    /\ batchCalls = 0
    /\ batches = {}
    /\ shutdowns = {}
    /\ closeCalls = 0
    /\ timedOut = FALSE
    /\ failedResults = 0
    /\ args \in SendArgs
    /\ LimiterIdle
    /\ WorkerIdle
    /\ ev = NoEvent

\* The call, from ensureNotShuttingDown to the settling of the promise returned.
runSendNotification ==
    /\ args.fn = "sendNotification"
    /\ nextCall = 1
    /\ nextCall' = nextCall + 1
    /\ IF ~ensureNotShuttingDown(isShuttingDown) \/ ~validateConfiguration(config)
       THEN /\ ev' = [op |-> "sendNotification", checked |-> FALSE,
                      out |-> Thrown("check"), raised |-> "check", hooks |-> <<>>,
                      calls |-> {}, next |-> NoTime]
            /\ UNCHANGED <<cb, subscriptions, retry_queue>>
       ELSE \E next \in calculateNextRetry(0, retryPolicy, args.provider.result.retryAfter, now) :
               LET run == runSend(args, subscriptions, retry_queue, cb, cbConfig, retryPolicy,
                                  now, nextCall, next) IN
               /\ ev' = [op |-> "sendNotification", checked |-> TRUE, out |-> run.out,
                         raised |-> run.raised, hooks |-> run.hooks, calls |-> run.calls,
                         next |-> next]
               /\ cb' = run.cb
               /\ subscriptions' = run.subs
               /\ retry_queue' = run.queue
    /\ UNCHANGED <<now, cbConfig, cbInflight, consecFails, hoSuccesses, retryPolicy, workerPolicy,
                   sends, wBatch, wProcessing, pcVars, auxVars>>

NextSend == runSendNotification

SpecSend == InitSend /\ [][NextSend]_vars

(***************************************************************************)
(* Retry worker lifecycle (RetryWorker.ts): start() and stop() calls, the  *)
(* polling loop of each start() call, and processRetry with storage calls  *)
(* and provider calls that may throw.                                      *)
(***************************************************************************)
QueueEntry(id, sub) ==
    [id |-> id, subscriptionId |-> sub, payload |-> PCPayload, attempt |-> 0,
     nextRetryAt |-> 0, lastError |-> NoError]

catchAck_skips(queue, retryId, faulty) == queue

\* The catch block of processRetry: acknowledge to prevent an infinite loop; when
\* this ackRetry throws as well, the error is logged and the entry stays.
catchAck(queue, retryId, faulty) ==
    IF "ackRetry (catch)" \in faulty THEN queue ELSE ackRetry(queue, retryId)

\* The storage calls that throw during one processRetry: none, one of first,
\* the ackRetry of the catch block, or both.
StorageFaults(first) ==
    {c \cup t : c \in {{}, {"ackRetry (catch)"}}, t \in {{}} \cup {{f} : f \in first}}

\* processRetry of p.entry from the return of provider.send (behaviour b) to its
\* finally block; the storage calls named in faulty throw.
finishRetry(p, b, next, t, faulty, subs, queue) ==
    LET retry == p.entry
        r == b.result
        caught(q) == [subs |-> subs, queue |-> catchAck(q, retry.id, faulty), threw |-> TRUE]
        update(u) == IF "updateSubscription" \in faulty
                     THEN [ok |-> FALSE, subs |-> subs]
                     ELSE updateSubscription(subs, retry.subscriptionId, u)
        enqueue(e) == IF "enqueueRetry" \in faulty
                      THEN [ok |-> FALSE, queue |-> queue]
                      ELSE enqueueRetry(subs, queue, e)
        \* ackRetry, then updateSubscription with u
        ackThenUpdate(u) ==
            IF "ackRetry" \in faulty THEN caught(queue)
            ELSE IF update(u).ok
            THEN [subs |-> update(u).subs, queue |-> ackRetry(queue, retry.id), threw |-> FALSE]
            ELSE caught(ackRetry(queue, retry.id))
    IN
    IF b.how = "throws"
    THEN caught(queue)
    ELSE IF r.success
    THEN ackThenUpdate(workerSuccessUpdates(t))
    ELSE IF shouldRetry(r, retry.attempt, workerPolicy.maxRetries)
    THEN LET q == enqueue([retry EXCEPT !.attempt = retry.attempt + 1, !.nextRetryAt = next,
                                        !.lastError = r.error]) IN
         IF ~q.ok THEN caught(queue)
         ELSE IF "ackRetry" \in faulty THEN caught(q.queue)
         ELSE [subs |-> subs, queue |-> ackRetry(q.queue, retry.id), threw |-> FALSE]
    ELSE ackThenUpdate(workerExpiredUpdates(p.subscription))

\* A worker not yet started, over a queue of two due entries.
InitW ==
    /\ now = 0
    /\ cbConfig = CoreBreakerConfig
    /\ cb = CircuitBreakerInit
    /\ cbInflight = 0
    /\ consecFails = 0
    /\ hoSuccesses = 0
    /\ retryPolicy = [maxRetries |-> MaxRetriesBound, baseDelay |-> BaseDelay,
                      backoffFactor |-> BackoffFactor, maxDelay |-> MaxDelay, jitter |-> FALSE]
    /\ workerPolicy = retryPolicy
    /\ subscriptions = [s \in SubIds |->
                           [status |-> "active", failedCount |-> 0, lastUsedAt |-> NoTime]]
    /\ retry_queue = {QueueEntry(1, "s1"), QueueEntry(2, "s2")}
    /\ nextCall = 1
    /\ sends = {}
    /\ wBatch = <<>>
    /\ wProcessing = {}
    /\ PushCoreInit(Unconfigured)
    /\ args = NoArgs
    /\ LimiterIdle
    /\ running = FALSE
    /\ loops = [l \in 1..MaxLoops |-> NoLoop]
    /\ processing = {}
    /\ stopsWaiting = 0
    /\ lastStop = "none"
    /\ instances = NoInstances
    /\ invocations = NoInvocations
    /\ \E c \in 1..Concurrency : workerOptions = [batchSize |-> BatchSize, concurrency |-> c]
    /\ ev = NoEvent

\* What the worker lifecycle leaves alone.
wkRest == <<now, cbVars, retryPolicy, workerPolicy, nextCall, sends, wBatch, pcVars, args,
            rlVars, workerOptions, instances, invocations>>

\* The loop l calls dequeueRetry, which returns a batch or throws (then the loop
\* backs off).
dequeueStep(l) ==
    \/ \E q \in dequeueRetry(retry_queue, workerOptions.batchSize, now) :
          /\ loops' = [loops EXCEPT ![l].pc = IF q = <<>> THEN "sleep" ELSE "chunks",
                                    ![l].batch = q]
          /\ ev' = [op |-> "dequeue", loop |-> l, stopped |-> loops[l].stopped, threw |-> FALSE,
                    queue |-> retry_queue, at |-> now]
    \/ /\ loops' = [loops EXCEPT ![l].pc = "sleep"]
       /\ ev' = [op |-> "dequeue", loop |-> l, stopped |-> loops[l].stopped, threw |-> TRUE,
                 queue |-> retry_queue, at |-> now]

\* start() is called: it throws, or sets the flag and enters the loop, whose
\* first dequeueRetry call it makes before it yields.
start ==
    /\ IF running
       THEN /\ ev' = [op |-> "start", out |-> Thrown("Worker is already running")]
            /\ UNCHANGED <<running, loops, lastStop>>
       ELSE \E l \in 1..MaxLoops :
               /\ loops[l].pc = "none"
               /\ \A k \in 1..(l - 1) : loops[k].pc # "none"
               /\ running' = TRUE
               /\ lastStop' = "none"
               /\ dequeueStep(l)
    /\ UNCHANGED <<processing, stopsWaiting, wProcessing, subscriptions, retry_queue, wkRest>>

\* stop() is called: it returns at once or goes to sleep.
stop ==
    /\ IF ~running
       THEN /\ ev' = [op |-> "stop", waited |-> FALSE]
            /\ UNCHANGED <<running, loops, stopsWaiting, lastStop>>
       ELSE /\ running' = FALSE
            /\ loops' = [l \in 1..MaxLoops |->
                            IF loops[l].pc \in {"none", "ended"} THEN loops[l]
                            ELSE [loops[l] EXCEPT !.stopped = TRUE]]
            /\ IF processing = {}
               THEN /\ ev' = [op |-> "stop", waited |-> FALSE]
                    /\ lastStop' = "returned"
                    /\ UNCHANGED stopsWaiting
               ELSE /\ stopsWaiting < MaxStops
                    /\ stopsWaiting' = stopsWaiting + 1
                    /\ lastStop' = "waiting"
                    /\ ev' = NoEvent
    /\ UNCHANGED <<processing, wProcessing, subscriptions, retry_queue, wkRest>>

\* A waiting stop() wakes up, finds the processing set empty and returns: the
\* one that cleared the flag last, or one that cleared it before a later start().
stopReturns ==
    /\ stopsWaiting > 0
    /\ processing = {}
    /\ stopsWaiting' = stopsWaiting - 1
    /\ \/ lastStop = "waiting" /\ lastStop' = "returned"
       \/ (lastStop # "waiting" \/ stopsWaiting > 1) /\ UNCHANGED lastStop
    /\ ev' = [op |-> "stop", waited |-> TRUE]
    /\ UNCHANGED <<running, loops, processing, wProcessing, subscriptions, retry_queue, wkRest>>

\* A loop is at `while (this.running)`: it ends, or calls dequeueRetry.
loopPolls ==
    \E l \in 1..MaxLoops :
       /\ loops[l].pc = "poll"
       /\ IF ~running
          THEN /\ loops' = [loops EXCEPT ![l].pc = "ended"]
               /\ ev' = [op |-> "startReturned", loop |-> l]
          ELSE dequeueStep(l)
       /\ UNCHANGED <<running, processing, stopsWaiting, lastStop, wProcessing, subscriptions,
                      retry_queue, wkRest>>

\* processRetriesWithConcurrency, between two chunks: it starts the processRetry
\* calls of the next chunk, or is done (no chunk left, or the worker not running).
loopNextChunk ==
    \E l \in 1..MaxLoops :
       /\ loops[l].pc = "chunks"
       /\ \A p \in wProcessing : p.loop # l
       /\ IF loops[l].batch = <<>> \/ ~running
          THEN /\ loops' = [loops EXCEPT ![l].pc = IF running THEN "sleep" ELSE "poll",
                                         ![l].batch = <<>>]
               /\ UNCHANGED <<processing, wProcessing>>
          ELSE LET n == Min(workerOptions.concurrency, Len(loops[l].batch))
                   chunk == {loops[l].batch[i] : i \in 1..n}
               IN
               /\ loops' = [loops EXCEPT ![l].batch = SubSeq(@, n + 1, Len(@))]
               /\ processing' = processing \cup {e.id : e \in chunk}
               /\ wProcessing' = wProcessing \cup
                                   {[loop |-> l, entry |-> e, stage |-> "lookup",
                                     subscription |-> NoRow] : e \in chunk}
       /\ ev' = NoEvent
       /\ UNCHANGED <<running, stopsWaiting, lastStop, subscriptions, retry_queue, wkRest>>

WorkerEvent(p, threw, faulty) ==
    [op |-> "processRetry", loop |-> p.loop, id |-> p.entry.id, stage |-> p.stage,
     threw |-> threw, ackThrew |-> threw /\ "ackRetry (catch)" \in faulty,
     others |-> {q \in wProcessing : q.loop = p.loop /\ q # p},
     batch |-> loops[p.loop].batch]

\* getSubscriptionById of the processRetry call p returned or threw; the storage
\* calls named in faulty throw.
lookedUpWith(p, faulty) ==
       LET sub == getSubscriptionById(subscriptions, p.entry.subscriptionId)
           threw == \/ "getSubscriptionById" \in faulty
                    \/ (sub = NoRow /\ "ackRetry" \in faulty)
       IN
       /\ p.stage = "lookup"
       /\ IF threw \/ sub = NoRow
          THEN /\ retry_queue' = IF threw THEN catchAck(retry_queue, p.entry.id, faulty)
                                 ELSE ackRetry(retry_queue, p.entry.id)
               /\ wProcessing' = wProcessing \ {p}
               /\ processing' = processing \ {p.entry.id}
               /\ ev' = WorkerEvent(p, threw, faulty)
          ELSE /\ wProcessing' = (wProcessing \ {p})
                                    \cup {[p EXCEPT !.stage = "send", !.subscription = sub]}
               /\ ev' = NoEvent
               /\ UNCHANGED <<retry_queue, processing>>
       /\ UNCHANGED <<running, loops, stopsWaiting, lastStop, subscriptions, wkRest>>

lookedUp ==
    \E p \in wProcessing, faulty \in StorageFaults({"getSubscriptionById", "ackRetry"}) :
       lookedUpWith(p, faulty)

\* provider.send of the processRetry call p returned or threw (b); the call runs
\* to its end, and the storage calls named in faulty throw.
settledWith(p, b, faulty) ==
    \E next \in calculateNextRetry(p.entry.attempt + 1, workerPolicy, b.result.retryAfter, now) :
       LET o == finishRetry(p, b, next, now, faulty, subscriptions, retry_queue) IN
       /\ p.stage = "send"
       /\ b.how # "missing"
       /\ b.result.retryAfter = NoRetryAfter
       /\ subscriptions' = o.subs
       /\ retry_queue' = o.queue
       /\ wProcessing' = wProcessing \ {p}
       /\ processing' = processing \ {p.entry.id}
       /\ ev' = WorkerEvent(p, o.threw, faulty)
       /\ UNCHANGED <<running, loops, stopsWaiting, lastStop, wkRest>>

sendSettled ==
    \E p \in wProcessing, b \in ProviderBehaviours,
       faulty \in StorageFaults({"enqueueRetry", "updateSubscription", "ackRetry"}) :
       settledWith(p, b, faulty)

\* A loop whose sleep never ends.
loopWakes_never == FALSE

\* The sleep of a loop (pollInterval or errorBackoff) ends.
loopWakes ==
    \E l \in 1..MaxLoops :
       /\ loops[l].pc = "sleep"
       /\ loops' = [loops EXCEPT ![l].pc = "poll"]
       /\ ev' = NoEvent
       /\ UNCHANGED <<running, processing, stopsWaiting, lastStop, wProcessing, subscriptions,
                      retry_queue, wkRest>>

NextW ==
    \/ start
    \/ stop
    \/ stopReturns
    \/ loopPolls
    \/ loopNextChunk
    \/ lookedUp
    \/ sendSettled
    \/ loopWakes

SpecW == InitW /\ [][NextW]_vars

(***************************************************************************)
(* A worker that is started and never stopped, over a queue of more        *)
(* entries than batchSize that fall due at different times; the storage    *)
(* calls of processRetry return, dequeueRetry returns or throws.           *)
(***************************************************************************)
InitRun ==
    /\ now = 0
    /\ cbConfig = CoreBreakerConfig
    /\ cb = CircuitBreakerInit
    /\ cbInflight = 0
    /\ consecFails = 0
    /\ hoSuccesses = 0
    /\ retryPolicy = [maxRetries |-> MaxRetriesBound, baseDelay |-> BaseDelay,
                      backoffFactor |-> BackoffFactor, maxDelay |-> MaxDelay, jitter |-> FALSE]
    /\ workerPolicy = retryPolicy
    /\ subscriptions = [s \in SubIds |->
                           [status |-> "active", failedCount |-> 0, lastUsedAt |-> NoTime]]
    /\ \E due \in [1..MaxEntries -> 0..MaxDue] :
          retry_queue = {[QueueEntry(i, IF i % 2 = 1 THEN "s1" ELSE "s2")
                              EXCEPT !.nextRetryAt = due[i]] : i \in 1..MaxEntries}
    /\ nextCall = 1
    /\ sends = {}
    /\ wBatch = <<>>
    /\ wProcessing = {}
    /\ PushCoreInit(Unconfigured)
    /\ args = NoArgs
    /\ LimiterIdle
    /\ running = FALSE
    /\ loops = [l \in 1..MaxLoops |-> NoLoop]
    /\ processing = {}
    /\ stopsWaiting = 0
    /\ lastStop = "none"
    /\ instances = NoInstances
    /\ invocations = NoInvocations
    /\ \E c \in 1..Concurrency : workerOptions = [batchSize |-> BatchSize, concurrency |-> c]
    /\ ev = NoEvent

lookedUpOk == \E p \in wProcessing : lookedUpWith(p, {})

sendSettledOk ==
    \E p \in wProcessing, b \in ProviderBehaviours : settledWith(p, b, {})

NextRun ==
    \/ Tick
    \/ start
    \/ loopPolls
    \/ loopNextChunk
    \/ lookedUpOk
    \/ sendSettledOk
    \/ loopWakes

SpecRun == InitRun /\ [][NextRun]_vars

\* The loop goes on: timers fire, and the calls it awaits settle.
SpecRunLive ==
    /\ SpecRun
    /\ WF_vars(loopPolls)
    /\ WF_vars(loopNextChunk)
    /\ WF_vars(lookedUpOk)
    /\ WF_vars(sendSettledOk)
    /\ WF_vars(loopWakes)

(***************************************************************************)
(* Two RetryWorker instances that poll the same storage.  Both are running *)
(* and neither is stopped; the storage calls return.                       *)
(***************************************************************************)
InitTwo ==
    /\ now = 0
    /\ cbConfig = CoreBreakerConfig
    /\ cb = CircuitBreakerInit
    /\ cbInflight = 0
    /\ consecFails = 0
    /\ hoSuccesses = 0
    /\ \E m \in 0..MaxRetriesBound :
          retryPolicy = [maxRetries |-> m, baseDelay |-> BaseDelay,
                         backoffFactor |-> BackoffFactor, maxDelay |-> MaxDelay, jitter |-> FALSE]
    /\ workerPolicy = retryPolicy
    /\ subscriptions \in [SubIds -> {[status |-> "active", failedCount |-> 0, lastUsedAt |-> NoTime],
                                      NoRow}]
    /\ \E due \in [1..2 -> 0..MaxDue] :
          retry_queue = {[QueueEntry(1, "s1") EXCEPT !.nextRetryAt = due[1]],
                         [QueueEntry(2, "s2") EXCEPT !.nextRetryAt = due[2]]}
    /\ nextCall = 1
    /\ sends = {}
    /\ wBatch = <<>>
    /\ wProcessing = {}
    /\ PushCoreInit(Unconfigured)
    /\ args = NoArgs
    /\ LimiterIdle
    /\ WorkerIdle
    /\ ev = NoEvent

\* Another dequeue, one that leaves out the entries an other instance holds.
instanceDequeue_leases ==
    \E w \in 1..MaxWorkers :
       LET held == UNION {{instances[v].batch[i] : i \in 1..Len(instances[v].batch)}
                             \cup {p.entry : p \in instances[v].sending} :
                          v \in (1..MaxWorkers) \ {w}}
       IN
       /\ instances[w].batch = <<>>
       /\ instances[w].sending = {}
       /\ \E q \in dequeueRetry(retry_queue \ held, BatchSize, now) :
             /\ q # <<>>
             /\ instances' = [instances EXCEPT ![w].batch = q]
             /\ ev' = [op |-> "instanceDequeue", instance |-> w, batch |-> q,
                       queue |-> retry_queue, at |-> now]
       /\ UNCHANGED <<now, cbVars, coreVars, pcVars, args, rlVars, running, loops, processing,
                      stopsWaiting, lastStop, workerOptions, invocations>>

\* One cycle of the loop of an instance: dequeueRetry(batchSize) returned entries.
instanceDequeue ==
    \E w \in 1..MaxWorkers :
       /\ instances[w].batch = <<>>
       /\ instances[w].sending = {}
       /\ \E q \in dequeueRetry(retry_queue, BatchSize, now) :
             /\ q # <<>>
             /\ instances' = [instances EXCEPT ![w].batch = q]
             /\ ev' = [op |-> "instanceDequeue", instance |-> w, batch |-> q,
                       queue |-> retry_queue, at |-> now]
       /\ UNCHANGED <<now, cbVars, coreVars, pcVars, args, rlVars, running, loops, processing,
                      stopsWaiting, lastStop, workerOptions, invocations>>

\* processRetriesWithConcurrency of an instance starts the next chunk: every
\* processRetry of it looks its subscription up and either acknowledges the entry
\* (no subscription) or calls provider.send.
instanceStartChunk ==
    \E w \in 1..MaxWorkers :
       LET batch == instances[w].batch
           n == Min(Concurrency, Len(batch))
           chunk == {batch[i] : i \in 1..n}
           orphans == {e \in chunk : getSubscriptionById(subscriptions, e.subscriptionId) = NoRow}
       IN
       /\ batch # <<>>
       /\ instances[w].sending = {}
       /\ instances' = [instances EXCEPT
                           ![w].batch = SubSeq(batch, n + 1, Len(batch)),
                           ![w].sending =
                               {[entry |-> e,
                                 subscription |-> getSubscriptionById(subscriptions, e.subscriptionId)] :
                                    e \in chunk \ orphans}]
       /\ retry_queue' = {e \in retry_queue : \A o \in orphans : e.id # o.id}
       /\ ev' = NoEvent
       /\ UNCHANGED <<now, cbVars, retryPolicy, workerPolicy, subscriptions, nextCall, sends,
                      wBatch, wProcessing, pcVars, args, rlVars, running, loops, processing,
                      stopsWaiting, lastStop, workerOptions, invocations>>

\* provider.send of a processRetry of an instance returned or threw; the call
\* runs to its end.
instanceSettled ==
    \E w \in 1..MaxWorkers :
    \E p \in instances[w].sending, b \in ProviderBehaviours :
    \E next \in calculateNextRetry(p.entry.attempt + 1, workerPolicy, b.result.retryAfter, now) :
       LET o == finishRetry(p, b, next, now, {}, subscriptions, retry_queue) IN
       /\ b.how # "missing"
       /\ b.result.retryAfter = NoRetryAfter
       /\ subscriptions' = o.subs
       /\ retry_queue' = o.queue
       /\ instances' = [instances EXCEPT ![w].sending = @ \ {p}]
       /\ ev' = [op |-> "instanceProcessed", instance |-> w, entry |-> p.entry,
                 queue |-> retry_queue,
                 sendingElsewhere |-> \E v \in (1..MaxWorkers) \ {w} :
                                         \E q \in instances[v].sending : q.entry = p.entry]
       /\ UNCHANGED <<now, cbVars, retryPolicy, workerPolicy, nextCall, sends, wBatch, wProcessing,
                      pcVars, args, rlVars, running, loops, processing, stopsWaiting, lastStop,
                      workerOptions, invocations>>

NextTwo ==
    \/ Tick
    \/ instanceDequeue
    \/ instanceStartChunk
    \/ instanceSettled

SpecTwo == InitTwo /\ [][NextTwo]_vars

(***************************************************************************)
(* Send pipeline and retry worker properties.                              *)
(***************************************************************************)
SendFailedWith(e) == e.op = "send" /\ e.how = "result" /\ ~e.result.success
Eligible0(e) == e.result.shouldRetry /\ retryPolicy.maxRetries > 0
Stored(e) == e.rowBefore # NoRow
Added(e) == e.queueAfter \ e.queueBefore
PlainBackoff(e) == ~retryPolicy.jitter /\ (e.result.retryAfter = NoRetryAfter \/ e.result.retryAfter <= 0)

OneNewEntry(e) ==
    /\ e.queueBefore \subseteq e.queueAfter
    /\ \E n \in Added(e) :
          /\ Added(e) = {n}
          /\ n.subscriptionId = e.subscriptionId
          /\ n.payload = e.payload
          /\ n.attempt = 0
          /\ PlainBackoff(e) => n.nextRetryAt = e.at + retryPolicy.baseDelay

\* C1 (as stated): after a fresh sendNotification whose provider result is a
\* failure, an entry was persisted iff the retry decision for attempt 0 is
\* eligible (shouldRetry flag set and maxRetries > 0); when eligible the result is
\* {success:false, enqueued:true} and exactly one new entry exists, for that
\* subscription, with attempt 0 and nextRetryAt = now + baseDelay (no jitter, no
\* retryAfter); when ineligible the result is {success:false, enqueued:false} and
\* the queue is unchanged.
C1_Original ==
    SendFailedWith(ev) =>
        /\ Added(ev) # {} <=> Eligible0(ev)
        /\ Eligible0(ev) => (ev.out = SendFailed(TRUE) /\ OneNewEntry(ev))
        /\ ~Eligible0(ev) => (ev.out = SendFailed(FALSE) /\ ev.queueAfter = ev.queueBefore)

\* C1 (amended): the same, with "eligible" strengthened to "eligible and the
\* subscription's row is in storage" (otherwise enqueueRetry throws and the call
\* returns {success:false, enqueued:false} with the queue unchanged).
C1_EnqueueIffEligibleAndStored ==
    SendFailedWith(ev) =>
        /\ Added(ev) # {} <=> (Eligible0(ev) /\ Stored(ev))
        /\ (Eligible0(ev) /\ Stored(ev)) => (ev.out = SendFailed(TRUE) /\ OneNewEntry(ev))
        /\ ~(Eligible0(ev) /\ Stored(ev)) =>
               (ev.out = SendFailed(FALSE) /\ ev.queueAfter = ev.queueBefore)

C1_Witness ==
    /\ SendFailedWith(ev) /\ Eligible0(ev) /\ Stored(ev) /\ PlainBackoff(ev)
    /\ ev.out = SendFailed(TRUE) /\ ev.queueBefore # {}

\* C2 (as stated): when the provider returns success, sendNotification returns
\* {success:true}, the subscription's lastUsedAt is updated in storage and no
\* retry entry is created.
C2_Original ==
    (ev.op = "send" /\ ev.how = "result" /\ ev.result.success) =>
        /\ ev.out = SendOk
        /\ ev.rowAfter.lastUsedAt = ev.at
        /\ ev.queueAfter = ev.queueBefore

\* C2 (amended): when the provider returns success and the subscription's row is
\* in storage, sendNotification returns {success:true} and lastUsedAt is set to
\* the time of the update; whether or not the row is there, no retry entry is
\* created.
C2_SuccessUpdatesLastUsed ==
    (ev.op = "send" /\ ev.how = "result" /\ ev.result.success) =>
        /\ ev.queueAfter = ev.queueBefore
        /\ Stored(ev) => (ev.out = SendOk /\ ev.rowAfter.lastUsedAt = ev.at)

C2_Witness ==
    /\ ev.op = "send" /\ ev.how = "result" /\ ev.result.success /\ Stored(ev)
    /\ ev.out = SendOk /\ ev.rowBefore.lastUsedAt # ev.at /\ ev.rowAfter.lastUsedAt = ev.at

ProcessedWith(e) == e.op = "process" /\ e.how = "result"
Acked(e) == \A q \in e.queueAfter : q.id # e.entry.id
EligibleAgain(e) == e.result.shouldRetry /\ e.entry.attempt < workerPolicy.maxRetries

\* C3: after the worker processed an entry with attempt a < maxRetries whose
\* provider call failed with shouldRetry = true (its subscription being in
\* storage), the queue holds a successor for the same subscription and payload
\* with attempt a + 1, and no entry of the queue has a smaller attempt than the
\* entry it succeeds.
C3_SuccessorEnqueued ==
    (ProcessedWith(ev) /\ ~ev.result.success /\ EligibleAgain(ev) /\ Stored(ev)) =>
        \E n \in ev.queueAfter :
            /\ n.subscriptionId = ev.entry.subscriptionId
            /\ n.payload = ev.entry.payload
            /\ n.attempt = ev.entry.attempt + 1

C5_WorkerSuccessAcks ==
    (ProcessedWith(ev) /\ ev.result.success) =>
        /\ Acked(ev)
        /\ ev.queueAfter \subseteq ev.queueBefore
        /\ ev.rowAfter # NoRow =>
              (ev.rowAfter.failedCount = 0 /\ ev.rowAfter.lastUsedAt = ev.at)

C5_Witness ==
    /\ ProcessedWith(ev) /\ ev.result.success
    /\ ev.entry \in ev.queueBefore /\ Acked(ev)
    /\ ev.rowBefore # NoRow /\ ev.rowBefore.failedCount > 0 /\ ev.rowAfter.failedCount = 0

\* C33: after a sendNotification whose provider call succeeded, the stored
\* subscription has failedCount 0 and lastUsedAt set to the time of the update,
\* whatever failedCount was before.
C33_SendSuccessResetsFailedCount ==
    (ev.op = "send" /\ ev.how = "result" /\ ev.result.success /\ Stored(ev)) =>
        /\ ev.rowAfter.lastUsedAt = ev.at
        /\ ev.rowAfter.failedCount = 0

(***************************************************************************)
(* PushCore lifecycle properties.                                        *)
(***************************************************************************)
\* C11: when a sendNotification call completes with a failed provider result and
\* it is the failureThreshold-th such call in a row (or a later one), the
\* orchestrator's breaker is open.
C11_FailedResultsTripBreaker ==
    (ev.op = "operation" /\ ev.how = "result" /\ ~ev.result.success
        /\ failedResults >= cbConfig.failureThreshold) => cb.state = "open"

\* C12: a sendNotification or batchSend call made by a caller once shutdown has
\* been called throws the shutting-down error, with no hook, rate limiter or
\* provider invoked and no operation tracked; and the shutting-down flag, once
\* set, stays set.
C12_ShutdownRefusesNewCalls ==
    /\ []((ev.op = "call" /\ ev.wasShuttingDown) =>
             (ev.out = Thrown("ShuttingDown") /\ ev.touched = {} /\ ~ev.tracked))
    /\ [][isShuttingDown => isShuttingDown']_vars

C12_Witness ==
    /\ ev.op = "call" /\ ev.kind = "batchSend" /\ ev.wasShuttingDown
    /\ Len(ev.input) > 0 /\ closeCalls = 1 /\ validateConfiguration(config)

\* C13: unless the timer of shutdown fired while an operation it waits for was
\* still pending, shutdown closes storage only when every operation that was in
\* flight at its call has completed, and no tracked operation calls the storage
\* adapter after it was closed.
C13_CloseAfterInFlight ==
    /\ (ev.op = "shutdownDone" /\ ~timedOut) => ev.pending = {}
    /\ (ev.op = "operation" /\ ev.storage /\ ev.closed) => timedOut

C13_Witness ==
    /\ ev.op = "shutdownDone" /\ ~ev.fired /\ Cardinality(ev.waitedFor) > 1
    /\ ev.pending = {} /\ closeCalls = 1

\* C14: a shutdown that waits always finishes, and has then closed the storage
\* adapter if one is configured, whether or not the operations it waits for ever
\* complete.
C14_ShutdownTerminates ==
    (shutdowns # {}) ~>
        (shutdowns = {} /\ ((config.configured /\ config.storageAdapter) => closeCalls > 0))

C14_Witness ==
    /\ ev.op = "shutdownDone" /\ ev.fired /\ ev.pending # {}
    /\ closeCalls = 1 /\ sends # {}

\* C15: storageAdapter.close() is called at most once, and a shutdown call made
\* when shutdown was called before (still waiting or already finished) is a no-op.
C15_ShutdownIdempotent ==
    /\ closeCalls <= 1
    /\ Cardinality(shutdowns) <= 1
    /\ (ev.op = "shutdown" /\ ev.wasShuttingDown) => ev.noop

C15_Witness ==
    ev.op = "shutdown" /\ ev.noop /\ ev.closeCalls = 1 /\ shutdowns = {}

\* C16: when a batchSend that was in flight finishes and no shutdown timer cut a
\* wait short, none of its subscriptions was refused by the shutting-down check
\* (each got as far as validation, the breaker and its provider attempt).
C16_InFlightBatchAttemptsAll ==
    (ev.op = "batchDone" /\ ~ev.timedOut) => ev.refused = {}

Failed(e) == ~e.result.success

\* C17: the BatchResult of a finished batchSend has total = number of input
\* subscriptions, success = number of results with success = true, success +
\* failed = total, and retried = number of failed results with enqueued = true
\* (so retried <= failed).
C17_BatchResultCounts ==
    ev.op = "batchDone" =>
        LET R == ev.result
            idx == 1..Len(R.results)
        IN  /\ R.total = Len(ev.input)
            /\ R.success = Cardinality({i \in idx : R.results[i].result.success})
            /\ R.success + R.failed = R.total
            /\ R.retried = Cardinality({i \in idx : /\ Failed(R.results[i])
                                                    /\ R.results[i].result.enqueued})
            /\ R.retried <= R.failed

C17_Witness ==
    /\ ev.op = "batchDone" /\ ev.result.total = MaxBatch
    /\ ev.result.success > 0 /\ ev.result.retried > 0 /\ ev.result.failed > ev.result.retried

\* C18: a finished batchSend returns exactly one SendResult per input
\* subscription, in input order, and the result of a subscription whose
\* sendNotification threw is {success:false, enqueued:false}.
C18_BatchNeverAborts ==
    ev.op = "batchDone" =>
        /\ Len(ev.result.results) = Len(ev.input)
        /\ \A i \in 1..Len(ev.input) : ev.result.results[i].subscriptionId = ev.input[i].id
        /\ \A i \in ev.refused : ev.result.results[i].result = SendFailed(FALSE)

C18_Witness ==
    /\ ev.op = "batchDone" /\ Len(ev.input) = MaxBatch /\ ev.input[1].id # ev.input[2].id
    /\ ev.refused # {} /\ ev.result.success > 0

Incomplete(cfg) ==
    \/ ~cfg.configured
    \/ ~cfg.vapidKeys \/ ~cfg.publicKey \/ ~cfg.privateKey
    \/ ~cfg.storageAdapter

\* C19 (as stated): a sendNotification or batchSend call on a PushCore that is
\* unconfigured or lacks the VAPID keys or the storage adapter throws
\* ConfigurationError, with no hook, rate limiter or provider invoked and no
\* operation tracked.
C19_Original ==
    (ev.op = "call" /\ Incomplete(config)) =>
        (ev.out = Thrown("ConfigurationError") /\ ev.touched = {} /\ ~ev.tracked)

\* C19 (amended): such a call throws, with no hook, rate limiter or provider
\* invoked and no operation tracked and the in-flight set as it was; what it throws
\* is ConfigurationError unless shutdown was called before, and then it is the
\* shutting-down error.
C19_IncompleteConfigurationThrows ==
    (ev.op = "call" /\ Incomplete(config)) =>
        /\ ev.out = IF ev.wasShuttingDown THEN Thrown("ShuttingDown")
                    ELSE Thrown("ConfigurationError")
        /\ ev.touched = {} /\ ~ev.tracked
        /\ inFlightOperations = ev.inFlightBefore

C19_Witness ==
    /\ ev.op = "call" /\ ev.kind = "batchSend" /\ Len(ev.input) > 0
    /\ config.configured /\ ~config.storageAdapter /\ ~ev.wasShuttingDown
    /\ ev.out = Thrown("ConfigurationError")

\* C20: a sendNotification call with a subscription lacking endpoint, keys.p256dh
\* or keys.auth (on a configured PushCore that is not shutting down) throws
\* ValidationError, and neither the rate limiter nor the provider is invoked.
C20_MalformedThrows ==
    (ev.op = "call" /\ ev.kind = "sendNotification" /\ ~ev.wasShuttingDown
        /\ ~Incomplete(config) /\ ev.input \in Malformed) =>
        (ev.out = Thrown("ValidationError") /\ ev.touched \cap {"limiter", "provider"} = {})

\* The sendNotification calls of batch b that wait for the provider.
InFlightOf(b) == {c \in sends : c.batch = b.id}

\* C34: during a batchSend, the calls in flight belong to the group being awaited,
\* which has at most `concurrency` members, all of the same batchSize chunk of the
\* input, and starts where the results collected so far end: no call of an
\* earlier group is still pending.
C34_BatchGroupsBounded ==
    \A b \in batches :
       /\ Cardinality(InFlightOf(b)) <= CoreBatchConfig.concurrency
       /\ Cardinality(DOMAIN b.chunk) <= CoreBatchConfig.concurrency
       /\ \A i, j \in DOMAIN b.chunk :
              (i - 1) \div CoreBatchConfig.batchSize = (j - 1) \div CoreBatchConfig.batchSize
       /\ \A c \in InFlightOf(b) : c.index \in DOMAIN b.chunk /\ b.chunk[c.index].result = Pending
       /\ \A i \in DOMAIN b.chunk : i > Len(b.results)

\* The last group of a batch of five, with batchSize 3 and concurrency 2: both of
\* its calls are in flight after the groups {1, 2} and {3} were collected.
C34_Witness ==
    \E b \in batches :
       /\ Len(b.subscriptions) > CoreBatchConfig.batchSize + 1
       /\ Len(b.results) = CoreBatchConfig.batchSize
       /\ Cardinality(InFlightOf(b)) = CoreBatchConfig.concurrency

\* C37: with a rate limiter and a breaker configured, a call reaches the breaker
\* only when its acquire() has returned: at the step in which the breaker rejects
\* it or lets it call the provider, a whole token was there and has been taken,
\* the provider is called unless the breaker was open (it stays open while the
\* clock is held), and no call whose provider call is pending is still sleeping
\* in acquire.
C37_AcquireThenBreakerThenProvider ==
    /\ ev.op = "gate" =>
           /\ ev.before >= Milli(1)
           /\ ev.tokens = ev.before - Milli(1)
           /\ ev.stage = "provider" <=> ev.breaker # "open"
           /\ \A w \in waiters : w.id # ev.call
    /\ \A c \in sends : \A w \in waiters : w.id # c.call

\* A call that slept in acquire got its token and was then rejected by the open
\* breaker.
C37_Witness ==
    /\ ev.op = "gate"
    /\ ev.stage = "breakerOpen"
    /\ ev.slept
    /\ ev.out = SendFailed(FALSE)
    /\ ev.tokens = ev.before - Milli(1)

(***************************************************************************)
(* Exception handling of one sendNotification call.                        *)
(***************************************************************************)
\* C21: once the shutdown and configuration checks have passed, sendNotification
\* never rejects: an exception raised by the rate limiter, the breaker (breaker
\* open included), the provider or the storage adapter is reported through
\* onFailure and becomes the resolved result {success: false, enqueued: false}.
C21_NeverRejectsAfterChecks ==
    (ev.op = "sendNotification" /\ ev.checked) =>
        /\ ev.out \in {SendOk, SendFailed(TRUE), SendFailed(FALSE)}
        /\ ev.raised \in {"limiter", "breaker", "provider", "storage"} =>
              /\ ev.out = SendFailed(FALSE)
              /\ ev.hooks[Len(ev.hooks)] = "onFailure"

\* The provider delivered, then updateSubscription threw for a subscription the
\* storage does not hold.
C21_Witness ==
    /\ ev.op = "sendNotification"
    /\ ev.raised = "storage"
    /\ args.provider.result.success
    /\ ev.hooks = <<"onSend", "onFailure">>
    /\ ev.out = SendFailed(FALSE)

\* C22: an exception thrown by onSend, onSuccess, onFailure or onRetry never
\* reaches the caller and changes neither the SendResult nor the storage effects:
\* the call ends as the same call with hooks that do not throw ends.
C22_HooksIsolated ==
    [][(ev'.op = "sendNotification" /\ ev'.checked) =>
          LET quiet == runSend([args EXCEPT !.throwing = {}], subscriptions, retry_queue, cb,
                               cbConfig, retryPolicy, now, nextCall, ev'.next) IN
          /\ ev'.out = quiet.out
          /\ ev'.calls = quiet.calls
          /\ subscriptions' = quiet.subs
          /\ retry_queue' = quiet.queue
          /\ cb' = quiet.cb]_vars

\* Every hook throws, and the call still delivers and records it.
C22_Witness ==
    /\ ev.op = "sendNotification"
    /\ args.throwing = HookNames
    /\ ev.hooks = <<"onSend", "onSuccess">>
    /\ ev.out = SendOk
    /\ subscriptions["s1"].lastUsedAt = now

(***************************************************************************)
(* Retry worker lifecycle properties.                                      *)
(***************************************************************************)
\* The claim as made: an exception thrown while the worker processes an entry
\* neither aborts the polling loop nor leaves the entry in the queue.
C28_Original ==
    (ev.op = "processRetry" /\ ev.threw) =>
        /\ \A e \in retry_queue : e.id # ev.id
        /\ loops[ev.loop].pc = "chunks"
        /\ loops[ev.loop].batch = ev.batch
        /\ ev.others \subseteq wProcessing

\* C28: an exception thrown while the worker processes an entry (subscription
\* lookup, provider send, enqueue, subscription update or acknowledgement) never
\* aborts the polling loop: the loop is where it was and the other entries of
\* the cycle are still being processed or still to be started; and the entry is
\* acknowledged unless the ackRetry of the catch block throws as well.
C28_ProcessingExceptionAcks ==
    (ev.op = "processRetry" /\ ev.threw) =>
        /\ ~ev.ackThrew => \A e \in retry_queue : e.id # ev.id
        /\ loops[ev.loop].pc = "chunks"
        /\ loops[ev.loop].batch = ev.batch
        /\ ev.others \subseteq wProcessing

\* The lookup of an entry threw while another entry of its chunk was in flight,
\* and the catch block acknowledged the entry.
C28_Witness ==
    /\ ev.op = "processRetry"
    /\ ev.threw
    /\ ev.stage = "lookup"
    /\ ~ev.ackThrew
    /\ ev.others # {}
    /\ \A e \in retry_queue : e.id # ev.id

\* C29: whenever a call to stop() returns, the running flag is false and the
\* processing set is empty, also for a stop() issued while another is waiting.
C29_StopReturnsDrained ==
    ev.op = "stop" => (~running /\ processing = {})

\* C30: at most one polling loop is active at a time: start() on a running
\* worker rejects and starts no loop, and a loop ended by stop() never polls
\* the queue again.
C30_SingleLoop ==
    /\ Cardinality({l \in 1..MaxLoops :
                       loops[l].pc \notin {"none", "ended"} /\ ~loops[l].stopped}) <= 1
    /\ (ev.op = "start" => running)
    /\ (ev.op = "dequeue" => ~ev.stopped)

\* C39: once the stop() call that cleared the running flag has returned, and
\* until start() is called again, no processRetry call is started, none goes on
\* to call the provider, and the entries dequeued but not started stay in the
\* queue.
C39_NothingStartsAfterStop ==
    [][(lastStop = "returned" /\ lastStop' = "returned") =>
          /\ wProcessing' \subseteq wProcessing
          /\ \A l \in 1..MaxLoops : \A i \in 1..Len(loops[l].batch) :
                 loops[l].batch[i] \in retry_queue => loops[l].batch[i] \in retry_queue']_vars

\* C35: the processing set of the worker never holds more than `concurrency`
\* entries, and so do the processRetry calls in flight.
C35_ProcessingWithinConcurrency ==
    /\ Cardinality(processing) <= workerOptions.concurrency
    /\ Cardinality(wProcessing) <= workerOptions.concurrency

\* C36: a dequeue of the worker returns at most batchSize entries of the queue,
\* all with nextRetryAt elapsed at the time of the call, in ascending
\* nextRetryAt order and none later than a due entry it left out, and it leaves
\* the queue as it was; the worker sends only entries whose nextRetryAt has
\* elapsed.
C36_DequeuesDueEntriesOnly ==
    /\ \A p \in wProcessing : p.entry.nextRetryAt <= now
    /\ \A l \in 1..MaxLoops : \A i \in 1..Len(loops[l].batch) :
           loops[l].batch[i].nextRetryAt <= now
    /\ (ev.op = "dequeue" /\ ~ev.threw) =>
          LET q == loops[ev.loop].batch
          IN  /\ retry_queue = ev.queue
              /\ Len(q) <= workerOptions.batchSize
              /\ \A i \in 1..Len(q) : q[i] \in ev.queue /\ q[i].nextRetryAt <= ev.at
              /\ \A i, j \in 1..Len(q) : i < j => q[i].nextRetryAt <= q[j].nextRetryAt
              /\ \A e \in ev.queue :
                     (e.nextRetryAt <= ev.at /\ \A i \in 1..Len(q) : q[i] # e) =>
                        /\ Len(q) = workerOptions.batchSize
                        /\ \A i \in 1..Len(q) : q[i].nextRetryAt <= e.nextRetryAt

\* A dequeue that returned a full batch while a due entry and an entry that is
\* not yet due stayed behind.
C36_Witness ==
    /\ ev.op = "dequeue"
    /\ ~ev.threw
    /\ Len(loops[ev.loop].batch) = workerOptions.batchSize
    /\ \E e \in retry_queue : e.nextRetryAt > now
    /\ \E e \in retry_queue :
          e.nextRetryAt <= now /\ \A i \in 1..Len(loops[ev.loop].batch) : loops[ev.loop].batch[i] # e

\* C31: a dequeue of one worker instance leaves the queue as it was and returns
\* the due entries whether or not the other instance holds them: an entry that
\* the other instance has sent to the provider and not yet acknowledged is in
\* the batch whenever the batch size allows it.
C31_DequeueClaimsNothing ==
    ev.op = "instanceDequeue" =>
       /\ retry_queue = ev.queue
       /\ \A v \in (1..MaxWorkers) \ {ev.instance} : \A p \in instances[v].sending :
              (/\ p.entry \in ev.queue
               /\ Cardinality({e \in ev.queue : e.nextRetryAt <= ev.at}) <= BatchSize)
                 => \E i \in 1..Len(ev.batch) : ev.batch[i] = p.entry

\* One entry, still in the queue, is with the provider for both instances.
C31_Witness ==
    \E e \in retry_queue :
       \A w \in 1..MaxWorkers : \E p \in instances[w].sending : p.entry = e

C40_DueEntriesEventuallyAcked ==
    [](ev.op = "dequeue" => ~ev.threw) =>
       \A id \in 1..MaxEntries :
          (running /\ \E e \in retry_queue : e.id = id /\ e.nextRetryAt <= now)
             ~> (\A e \in retry_queue : e.id # id)

\* More entries than batchSize were due at once, and the queue has been emptied.
C40_Witness ==
    /\ running
    /\ retry_queue = {}
    /\ ev.op = "processRetry"
    /\ now = 0

(***************************************************************************)
(* Retry decision and retry delay properties.                              *)
(***************************************************************************)
\* C23: for every provider result, attempt and maxRetries, shouldRetry returns
\* true exactly when attempt < maxRetries and the result's shouldRetry flag is
\* true; the status code never changes the outcome.
C23_ShouldRetryIsFlagWithinBudget ==
    ev.op = "shouldRetry" =>
        (ev.value <=> (args.attempt < args.maxRetries /\ args.result.shouldRetry))

\* A 5xx result whose flag is false is not retried although attempts remain.
C23_Witness ==
    /\ ev.op = "shouldRetry"
    /\ args.result.statusCode = 500
    /\ ~args.result.shouldRetry
    /\ args.attempt < args.maxRetries
    /\ ~ev.value

\* The delay the claim states for a call without retryAfter and without jitter.
BackoffDelay(attempt, policy) ==
    Min(policy.baseDelay * Pow(policy.backoffFactor, attempt), policy.maxDelay)

\* C24: with retryAfter > 0 calculateNextRetry returns exactly now + retryAfter
\* seconds whatever the attempt and the policy; with retryAfter absent or 0 and
\* jitter off it returns now + min(baseDelay * backoffFactor^attempt, maxDelay),
\* a delay that does not decrease with the attempt and never exceeds maxDelay.
C24_RetryAfterElseCappedBackoff ==
    ev.op = "calculateNextRetry" =>
        /\ args.retryAfter > 0 => ev.value = now + args.retryAfter * MsPerSec
        /\ (args.retryAfter \in {NoRetryAfter, 0} /\ ~args.policy.jitter) =>
              /\ ev.value = now + BackoffDelay(args.attempt, args.policy)
              /\ ev.value - now <= args.policy.maxDelay
              /\ args.attempt > 0 =>
                    BackoffDelay(args.attempt - 1, args.policy) <= ev.value - now

\* The last attempt's delay is cut down to maxDelay.
C24_Witness ==
    /\ ev.op = "calculateNextRetry"
    /\ args.retryAfter = 0
    /\ ~args.policy.jitter
    /\ args.attempt = MaxAttempt
    /\ args.policy.baseDelay * Pow(args.policy.backoffFactor, args.attempt) > args.policy.maxDelay
    /\ ev.value = now + args.policy.maxDelay

(***************************************************************************)
(* Rate limiter properties.                                                *)
(***************************************************************************)
\* C25: tryAcquire(n) returns true if and only if the refilled token count is at
\* least n at call time; on true it deducts exactly n tokens, on false nothing;
\* the call returns in the step it is made in (it never waits).
C25_TryAcquireIffEnough ==
    ev.op = "tryAcquire" =>
        LET refilled == refill(ev.before, rlConfig, ev.elapsed) IN
        /\ ev.value <=> refilled >= Milli(ev.n)
        /\ tokens = IF ev.value THEN refilled - Milli(ev.n) ELSE refilled

\* A call that asks for exactly what a partly refilled bucket holds is granted.
C25_Witness ==
    /\ ev.op = "tryAcquire"
    /\ ev.value
    /\ ev.elapsed > 0
    /\ ev.before < Milli(ev.n)
    /\ tokens = 0

\* C26: under any interleaving of acquire, tryAcquire and getAvailableTokens
\* callers asking for n >= 1, with time advancing, the token count stays
\* between 0 and capacity.
C26_TokensWithinBucket ==
    /\ tokens >= 0
    /\ tokens <= Milli(rlConfig.capacity)

\* A waiting acquire was granted the bucket's last tokens while another waits,
\* after the bucket had been refilled over more time than fills it.
C26_Witness ==
    /\ ev.op = "acquire"
    /\ ev.before + ev.elapsed * rlConfig.refillRate > Milli(rlConfig.capacity)
    /\ tokens = 0
    /\ waiters # {}

\* Tokens went to a caller other than the acquire call id.
GrantedToOther(id) ==
    /\ ev.op \in {"tryAcquire", "acquire"}
    /\ ev.value
    /\ ev.id # id

\* C27: acquire(n) with n <= capacity and refillRate > 0 eventually returns as
\* time advances, unless tokens go to another caller meanwhile, and when it
\* returns the refilled bucket held at least n tokens and exactly n were deducted.
C27_AcquireEventuallyReturns ==
    /\ [](ev.op = "acquire" =>
            LET refilled == Min(Milli(rlConfig.capacity),
                                ev.before + ev.elapsed * rlConfig.refillRate) IN
            /\ refilled >= Milli(ev.n)
            /\ tokens = refilled - Milli(ev.n))
    /\ \A id \in 1..MaxWaiters :
          (\E w \in waiters : w.id = id /\ w.n <= rlConfig.capacity)
             ~> ((\A w \in waiters : w.id # id) \/ GrantedToOther(id))

\* An acquire that had to wait for the whole capacity returned.
C27_Witness ==
    /\ ev.op = "acquire"
    /\ ev.n = rlConfig.capacity
    /\ ev.before < Milli(ev.n)
    /\ waiters = {}

(***************************************************************************)
(* Circuit breaker properties.                                             *)
(***************************************************************************)
Elapsed(e) ==
    e.before.lastFailureTime # NoTime /\ e.at - e.before.lastFailureTime >= cbConfig.resetTimeout

\* C6: while closed, a failure opens the breaker exactly when it is the
\* failureThreshold-th failure since the last success; a success while closed
\* resets the failure counter to 0 and leaves the breaker closed; so a closed
\* breaker has seen fewer than failureThreshold consecutive failures, and it only
\* ever leaves closed through such a failure.
C6_ClosedOpensAtThreshold ==
    /\ (ev.op = "failure" /\ ev.before.state = "closed") =>
           (ev.after.state = "open" <=> ev.streak = cbConfig.failureThreshold)
    /\ (ev.op = "success" /\ ev.before.state = "closed") =>
           (ev.after.state = "closed" /\ ev.after.failureCount = 0)
    /\ (ev.op # "none" /\ ev.before.state = "closed" /\ ev.after.state # "closed") =>
           (ev.op = "failure" /\ ev.after.state = "open")
    /\ cb.state = "closed" => consecFails < cbConfig.failureThreshold

C6_Witness ==
    /\ ev.op = "failure" /\ ev.before.state = "closed" /\ ev.after.state = "open"
    /\ cbConfig.failureThreshold = MaxThreshold

\* C7: execute() on an open breaker whose resetTimeout has not elapsed since the
\* last failure throws without invoking fn and changes nothing in the breaker.
C7_OpenRejects ==
    (ev.op = "execute" /\ ev.before.state = "open" /\ ~Elapsed(ev)) =>
        (~ev.invoked /\ ev.after = ev.before)

C7_Witness ==
    ev.op = "execute" /\ ev.before.state = "open" /\ ~Elapsed(ev) /\ ev.at > ev.before.lastFailureTime

\* C8: execute() on an open breaker whose resetTimeout has elapsed moves it to
\* half-open with successCount 0 and invokes fn.
C8_OpenToHalfOpen ==
    (ev.op = "execute" /\ ev.before.state = "open" /\ Elapsed(ev)) =>
        (ev.invoked /\ ev.after.state = "half-open" /\ ev.after.successCount = 0)

C8_Witness ==
    /\ ev.op = "execute" /\ ev.before.state = "open" /\ ev.after.state = "half-open"
    /\ ev.at - ev.before.lastFailureTime = cbConfig.resetTimeout

\* C9: a failure recorded while the breaker is half-open always leaves it open,
\* for every failureThreshold and whatever calls overlapped before.
C9_HalfOpenFailureReopens ==
    (ev.op = "failure" /\ ev.before.state = "half-open") => ev.after.state = "open"

C9_Witness ==
    /\ ev.op = "failure" /\ ev.before.state = "half-open" /\ ev.after.state = "open"
    /\ cbConfig.failureThreshold > 1

\* C10: a success recorded while half-open closes the breaker exactly when it is
\* the halfOpenMaxAttempts-th success counted since the breaker became half-open,
\* and then failureCount and successCount are 0; with fewer it stays half-open.
C10_HalfOpenClosesAtMax ==
    /\ (ev.op = "success" /\ ev.before.state = "half-open") =>
           /\ ev.after.state = "closed" <=> ev.counted = cbConfig.halfOpenMaxAttempts
           /\ ev.after.state = "closed" =>
                  (ev.after.failureCount = 0 /\ ev.after.successCount = 0)
           /\ ev.after.state # "closed" =>
                  (ev.after.state = "half-open" /\ ev.counted < cbConfig.halfOpenMaxAttempts)
    /\ cb.state = "half-open" => hoSuccesses < cbConfig.halfOpenMaxAttempts

C10_Witness ==
    /\ ev.op = "success" /\ ev.before.state = "half-open" /\ ev.after.state = "closed"
    /\ cbConfig.halfOpenMaxAttempts > 1

(***************************************************************************)
(* Configuration properties.                                               *)
(***************************************************************************)
\* C32: a configure call that carries circuit-breaker settings leaves a fresh
\* closed breaker with the merged settings, and a configure call that carries
\* none leaves the breaker's state, failure count and settings as they were.
C32_ConfigureKeepsBreaker ==
    ev.op = "configure" =>
        IF ev.options.given
        THEN ev.after = CircuitBreakerInit
        ELSE /\ ev.after.state = ev.before.state
             /\ ev.after.failureCount = ev.before.failureCount
             /\ cbConfig = ev.configBefore

====
